---- MODULE Spec2Model ----
(***************************************************************************)
(* FabricLA-Connector: retry policy, batching, ingestion and paginated     *)
(* fetching, modelled as state machines.                                   *)
(*                                                                         *)
(* Error messages are sequences of one-character strings, so that the      *)
(* substring tests the code makes on str(e) are computed, not assumed.     *)
(***************************************************************************)
EXTENDS Integers, Sequences, FiniteSets, TLC

VARIABLES
    \* ---- RetryPolicy.execute (ingestion/retry.py) ----
    max_retries,      \* RetryPolicy.max_retries / the max_retries argument
    exponential,      \* RetryPolicy.exponential
    attempt,          \* local `attempt` of execute
    last_exception,   \* local `last_exception` of execute
    calls,            \* number of times func() was invoked by this execute
    classified,       \* what _should_retry answered for the last failure
    rsleeps,          \* delays handed to time.sleep, in order
    rpc,              \* "running", "returned", "raised"
    \* ---- the batchers (ingestion/batch.py, utils.py, ingestion.py) ----
    b_records,        \* the record list handed to the batcher
    b_max_bytes,      \* the max_size_bytes / max_bytes argument
    b_chunk_size,     \* the chunk_size argument of chunk_records
    b_fn,             \* the batcher that ran, "none" before
    b_batches,        \* the batches it produced, in order
    \* ---- one ingestion call (ingestion/client.py, ingestion.py) ----
    impl,             \* "ingest", "post_rows_to_dcr", "post_rows_to_dcr_enhanced"
    records,          \* the records argument
    chunk_size,       \* the chunk_size argument
    ipc,              \* "idle", "called", "upload", "halves", "returned"
    chunk_idx,        \* enumerate index of the chunk being processed (0-based)
    half_idx,         \* position in smaller_chunks (post_rows_to_dcr)
    retry_count,      \* local retry_count of post_rows_to_dcr
    total_ingested,   \* total_ingested / successful_records
    failed_chunks,    \* failed_chunks / errors
    failed_records,   \* failed_records of post_rows_to_dcr_enhanced
    cur,              \* what happened so far to the chunk being processed
    chunk_log,        \* what happened to each chunk already left behind
    result,           \* the dictionary returned
    cancelled,        \* a KeyboardInterrupt was delivered to the call
    \* ---- one fetch from the Fabric API (api/fabric_client.py, collectors.py) ----
    fetcher,          \* the function that fetches
    pages,            \* the upstream: the items of each page, in order
    lookback_hours,   \* the lookback_hours argument, 0 for None
    fpc,              \* "idle", "running", "returned", "raised"
    continuation_token, \* continuation_token / page_token, 0 for None
    all_items,        \* all_items / instances accumulated so far
    last_request,     \* the last request issued and its answer
    slept,            \* seconds the last step slept, -1 if it did not sleep
    rate_limited,     \* 429 answers in a row for the page being requested
    ferror,           \* the exception that left the fetch
    fresult,          \* the list returned
    \* ---- MonitoringStrategy (monitoring_detection.py) ----
    env_strategy,     \* os.environ's FABRIC_MONITORING_STRATEGY
    spc,              \* "idle", "constructed"
    s_arg,            \* the strategy argument the engine was constructed with
    strategy,         \* MonitoringStrategy.strategy
    decision,         \* the last evaluation of should_collect_data_source
    earlier,          \* the last evaluation made on the engine before this one
    \* ---- the mappers (mappers/pipeline.py, collectors.py, utils.py) ----
    m_fn,             \* the mapper that is called
    m_item,           \* the raw item handed to it
    m_clock,          \* the wall clock iso_now() reads
    m_out,            \* the Record of the last call
    m_prev,           \* the Record of the call before it
    \* ---- run_intelligent_monitoring_cycle (workflows.py) ----
    c_mode,           \* strategy.strategy of the cycle's MonitoringStrategy
    c_status,         \* workspace_monitoring_enabled as detected
    c_capacity,       \* a capacity_id was given
    c_pc,             \* "idle", "running", "returned"
    c_idx,            \* position of the for loop in data_sources
    c_invoked,        \* the sources whose collector_func was called
    c_outcome,        \* how the collector of a source ended
    collections,      \* results["collections"]
    skipped_collections, \* results["skipped_collections"]
    summary           \* results["summary"]

retryVars == <<max_retries, exponential, attempt, last_exception, calls,
               classified, rsleeps, rpc>>

batchVars == <<b_records, b_max_bytes, b_chunk_size, b_fn, b_batches>>

ingestVars == <<impl, records, chunk_size, ipc, chunk_idx, half_idx, retry_count,
                total_ingested, failed_chunks, failed_records, cur, chunk_log,
                result, cancelled>>

fetchVars == <<fetcher, pages, lookback_hours, fpc, continuation_token, all_items,
               last_request, slept, rate_limited, ferror, fresult>>

strategyVars == <<env_strategy, spc, s_arg, strategy, decision, earlier>>

mapperVars == <<m_fn, m_item, m_clock, m_out, m_prev>>

cycleVars == <<c_mode, c_status, c_capacity, c_pc, c_idx, c_invoked, c_outcome,
               collections, skipped_collections, summary>>

vars == <<retryVars, batchVars, ingestVars, fetchVars, strategyVars, mapperVars,
          cycleVars>>

----------------------------------------------------------------------------
(* Bounds of the model *)
MaxRetries == 2
MaxBatchRecords == 3
MaxIngestRecords == 2
MaxChunkSize == 2
MaxPages == 2
MaxRateLimited == 5

----------------------------------------------------------------------------
(* Strings as sequences of characters *)

Digits == <<"0", "1", "2", "3", "4", "5", "6", "7", "8", "9">>

IsDigit(c) == \E d \in 1..10 : Digits[d] = c

DigitVal(c) == (CHOOSE d \in 1..10 : Digits[d] = c) - 1

\* str.lower() on the characters the messages use
LowerChar(c) ==
    CASE c = "R" -> "r"
      [] c = "A" -> "a"
      [] c = "C" -> "c"
      [] c = "T" -> "t"
      [] c = "F" -> "f"
      [] c = "M" -> "m"
      [] OTHER -> c

Lower(s) == [i \in 1..Len(s) |-> LowerChar(s[i])]

\* p occurs in s starting at position i
OccursAt(s, p, i) ==
    /\ i >= 1
    /\ i + Len(p) - 1 <= Len(s)
    /\ \A k \in 1..Len(p) : s[i + k - 1] = p[k]

\* Python `p in s`
Contains(s, p) == \E i \in 1..(Len(s) - Len(p) + 1) : OccursAt(s, p, i)

\* s[i:] (1-based i)
Tail_from(s, i) == IF i > Len(s) THEN <<>> ELSE SubSeq(s, i, Len(s))

\* value of the digit string s (int(s) for a string of digits)
RECURSIVE DigitsToInt(_)
DigitsToInt(s) ==
    IF s = <<>> THEN 0
    ELSE 10 * DigitsToInt(SubSeq(s, 1, Len(s) - 1)) + DigitVal(s[Len(s)])

\* the words the code looks for
S429 == <<"4", "2", "9">>
S500 == <<"5", "0", "0">>
S502 == <<"5", "0", "2">>
S503 == <<"5", "0", "3">>
S504 == <<"5", "0", "4">>
S400 == <<"4", "0", "0">>
S401 == <<"4", "0", "1">>
S403 == <<"4", "0", "3">>
S404 == <<"4", "0", "4">>
S413 == <<"4", "1", "3">>
SRateLimit == <<"r", "a", "t", "e", " ", "l", "i", "m", "i", "t">>
STimeout == <<"t", "i", "m", "e", "o", "u", "t">>
SConnection == <<"c", "o", "n", "n", "e", "c", "t", "i", "o", "n">>
STemporary == <<"t", "e", "m", "p", "o", "r", "a", "r", "y">>
SRetryAfter == <<"r", "e", "t", "r", "y", "-", "a", "f", "t", "e", "r">>
STooLarge == <<"t", "o", "o", " ", "l", "a", "r", "g", "e">>
SRateLimited == <<"R", "a", "t", "e", " ", "l", "i", "m", "i", "t", "e", "d">>

----------------------------------------------------------------------------
(* Errors an upload can raise: the HTTP status of the response (0 when    *)
(* there was no response) and the text str(e) gives.                       *)

NoError == [status |-> -1, text |-> <<>>]

Err(status, text) == [status |-> status, text |-> text]

E400 == Err(400, S400)
E401 == Err(401, S401)
\* 401 whose body mentions the token endpoint timing out
E401Timeout == Err(401, S401 \o <<" ">> \o STimeout)
E403 == Err(403, S403)
E404 == Err(404, S404)
E413 == Err(413, S413 \o <<" ">> \o STooLarge)
\* 413 whose body quotes the request size in bytes
E413Size == Err(413, S413 \o <<" ">> \o <<"1", "5", "0", "0", "0", "0", "0">>)
E429 == Err(429, S429)
E429RetryAfter == Err(429, S429 \o <<" ">> \o <<"R", "e", "t", "r", "y", "-", "A", "f", "t", "e", "r", ":", " ", "5">>)
E500 == Err(500, S500)
E502 == Err(502, S502)
E503 == Err(503, S503)
E504 == Err(504, S504)
\* a 503 whose text is the reason phrase of the response, without the number
E503Unavailable == Err(503, <<"S", "e", "r", "v", "i", "c", "e", " ", "U", "n", "a", "v", "a", "i", "l", "a", "b", "l", "e">>)
E503RetryAfter == Err(503, S503 \o <<" ">> \o <<"R", "e", "t", "r", "y", "-", "A", "f", "t", "e", "r", ":", " ", "5">>)
EConnection == Err(0, <<"C">> \o Tail_from(SConnection, 2) \o <<" ">> \o <<"r", "e", "s", "e", "t">>)
ETimeout == Err(0, STimeout)

AllErrors == {E400, E401, E401Timeout, E403, E404, E413, E413Size, E429,
              E429RetryAfter, E500, E502, E503, E503RetryAfter, E503Unavailable,
              E504, EConnection, ETimeout}

----------------------------------------------------------------------------
(* RetryPolicy (ingestion/retry.py) *)

BaseDelay == 1
MaxDelay == 300

retryable_patterns ==
    <<S429, S500, S502, S503, S504, SRateLimit, STimeout, SConnection, STemporary>>

\* RetryPolicy._should_retry
ShouldRetry(error_msg) ==
    LET error_lower == Lower(error_msg)
    IN \E k \in 1..Len(retryable_patterns) : Contains(error_lower, retryable_patterns[k])

Min(a, b) == IF a <= b THEN a ELSE b

RECURSIVE Pow2(_)
Pow2(n) == IF n <= 0 THEN 1 ELSE 2 * Pow2(n - 1)

\* re.search(r'(\d+)', s): the first maximal run of digits of s, <<>> if none
RECURSIVE DigitRun(_)
DigitRun(s) ==
    IF s = <<>> \/ ~IsDigit(s[1]) THEN <<>>
    ELSE <<s[1]>> \o DigitRun(Tail_from(s, 2))

RECURSIVE FirstDigits(_)
FirstDigits(s) ==
    IF s = <<>> THEN <<>>
    ELSE IF IsDigit(s[1]) THEN DigitRun(s)
    ELSE FirstDigits(Tail_from(s, 2))

\* error_msg.lower().split('retry-after')[1]: the text after the first
\* occurrence, up to the next occurrence
AfterRetryAfter(error_lower) ==
    LET first == CHOOSE i \in 1..Len(error_lower) :
                    /\ OccursAt(error_lower, SRetryAfter, i)
                    /\ \A j \in 1..(i - 1) : ~OccursAt(error_lower, SRetryAfter, j)
        rest == Tail_from(error_lower, first + Len(SRetryAfter))
    IN IF Contains(rest, SRetryAfter)
       THEN SubSeq(rest, 1, (CHOOSE i \in 1..Len(rest) :
                    /\ OccursAt(rest, SRetryAfter, i)
                    /\ \A j \in 1..(i - 1) : ~OccursAt(rest, SRetryAfter, j)) - 1)
       ELSE rest

\* the exponential or linear backoff of _calculate_delay
Backoff(att, exp) ==
    IF exp THEN BaseDelay * Pow2(att - 1) ELSE BaseDelay * att

\* RetryPolicy._calculate_delay
CalculateDelay(att, error_msg, exp) ==
    LET error_lower == Lower(error_msg)
        hinted == /\ (Contains(error_msg, S429) \/ Contains(error_lower, SRateLimit))
                  /\ Contains(error_lower, SRetryAfter)
                  /\ FirstDigits(AfterRetryAfter(error_lower)) # <<>>
    IN IF hinted
       THEN Min(DigitsToInt(FirstDigits(AfterRetryAfter(error_lower))), MaxDelay)
       ELSE Min(Backoff(att, exp), MaxDelay)

\* the loop condition of execute
LoopGuard(att, maxr) == att <= maxr

\* (mutation) the counter is not advanced when the call fails
NextAttempt_NotCounted(att) == att

\* `attempt += 1`
NextAttempt(att) == att + 1

\* `if attempt > self.max_retries` inside the except block
Exhausted(att, maxr) == att > maxr

\* a plausible slip: the `if not self._should_retry(error_msg): raise` test is
\* missing, every error goes through the retry schedule
ExecutePass_RetriesEveryError(att, maxr, exp, outcome) ==
    LET a == NextAttempt(att)
    IN IF outcome = NoError
       THEN [attempt |-> a, ends |-> "returned", delay |-> 0, retryable |-> FALSE]
       ELSE IF Exhausted(a, maxr)
       THEN [attempt |-> a, ends |-> "raised", delay |-> 0,
             retryable |-> ShouldRetry(outcome.text)]
       ELSE [attempt |-> a, ends |-> "sleep",
             delay |-> CalculateDelay(a, outcome.text, exp),
             retryable |-> ShouldRetry(outcome.text)]

\* One pass of the while loop of RetryPolicy.execute, given the attempt
\* counter before the pass and what func() did ("ok" or an error): the new
\* counter, how the pass ended and the delay slept.
ExecutePass(att, maxr, exp, outcome) ==
    LET a == NextAttempt(att)
    IN IF outcome = NoError
       THEN [attempt |-> a, ends |-> "returned", delay |-> 0, retryable |-> FALSE]
       ELSE IF ~ShouldRetry(outcome.text)
       THEN [attempt |-> a, ends |-> "raised", delay |-> 0, retryable |-> FALSE]
       ELSE IF Exhausted(a, maxr)
       THEN [attempt |-> a, ends |-> "raised", delay |-> 0, retryable |-> TRUE]
       ELSE [attempt |-> a, ends |-> "sleep",
             delay |-> CalculateDelay(a, outcome.text, exp), retryable |-> TRUE]

----------------------------------------------------------------------------
(* The parts of the state a specification does not use stay as they are    *)
(* here.                                                                   *)

RetryIdle ==
    /\ max_retries = 0
    /\ exponential = TRUE
    /\ attempt = 0
    /\ last_exception = NoError
    /\ calls = 0
    /\ classified = "none"
    /\ rsleeps = <<>>
    /\ rpc = "idle"

BatchIdle ==
    /\ b_records = <<>>
    /\ b_max_bytes = 0
    /\ b_chunk_size = 1
    /\ b_fn = "none"
    /\ b_batches = <<>>

NoRequest == [token |-> 0, status |-> 0, retry_after |-> [present |-> FALSE, value |-> <<>>]]

NoException == [class |-> "none", text |-> <<>>]

FetchIdle ==
    /\ fetcher = "none"
    /\ pages = <<>>
    /\ lookback_hours = 0
    /\ fpc = "idle"
    /\ continuation_token = 0
    /\ all_items = <<>>
    /\ last_request = NoRequest
    /\ slept = -1
    /\ rate_limited = 0
    /\ ferror = NoException
    /\ fresult = <<>>

\* an environment variable: unset, or set to a value
NoEnv == [present |-> FALSE, value |-> <<>>]

EnvValue(v) == [present |-> TRUE, value |-> v]

\* no evaluation yet
NoDecision == [source |-> "none"]

\* an empty dictionary; a Record not yet produced
EmptyDict == [k \in {} |-> FALSE]

NoRecord == [none |-> TRUE]

MapperIdle ==
    /\ m_fn = "none"
    /\ m_item = EmptyDict
    /\ m_clock = "idle"
    /\ m_out = NoRecord
    /\ m_prev = NoRecord

CycleIdle ==
    /\ c_mode = <<>>
    /\ c_status = "none"
    /\ c_capacity = FALSE
    /\ c_pc = "idle"
    /\ c_idx = 0
    /\ c_invoked = {}
    /\ c_outcome = EmptyDict
    /\ collections = EmptyDict
    /\ skipped_collections = EmptyDict
    /\ summary = [total_sources |-> 0, collected_sources |-> 0, skipped_sources |-> 0,
                  total_records |-> 0]

StrategyIdle ==
    /\ env_strategy = NoEnv
    /\ spc = "idle"
    /\ s_arg = <<>>
    /\ strategy = <<>>
    /\ decision = NoDecision
    /\ earlier = NoDecision

NoResult == [status |-> "none"]

\* nothing has happened yet to the chunk being processed
FreshChunk == [calls |-> 0, last |-> NoError, half_calls |-> 0, sent |-> 0, failed |-> 0]

IngestIdle ==
    /\ impl = "none"
    /\ records = <<>>
    /\ chunk_size = 1
    /\ ipc = "idle"
    /\ chunk_idx = 0
    /\ half_idx = 0
    /\ retry_count = 0
    /\ total_ingested = 0
    /\ failed_chunks = <<>>
    /\ failed_records = 0
    /\ cur = FreshChunk
    /\ chunk_log = <<>>
    /\ result = NoResult
    /\ cancelled = FALSE

----------------------------------------------------------------------------
(* Records and their JSON serialization.  A record {"id": i, "pad": "x"*p} *)
(* with a one-digit id: json.dumps gives {"id": 1, "pad": "xx"}, that is    *)
(* 20 + p characters with the default separators (", " and ": ") and       *)
(* 17 + p with separators=(",", ":").                                      *)

Rec(i, p) == [id |-> i, pad |-> p]

\* len(json.dumps(record).encode('utf-8'))
DumpsSize(record) == 20 + record.pad

\* len(json.dumps(record, separators=(",", ":")))
DumpsSizeCompact(record) == 17 + record.pad

RECURSIVE SumSizes(_)
SumSizes(recs) ==
    IF recs = <<>> THEN 0
    ELSE DumpsSize(recs[1]) + SumSizes(Tail(recs))

\* estimate_payload_size: len(json.dumps(records).encode('utf-8')), the list
\* with its brackets and a ", " between two records
estimate_payload_size(recs) ==
    IF recs = <<>> THEN 2
    ELSE 2 + SumSizes(recs) + 2 * (Len(recs) - 1)

\* chunk_records (ingestion/batch.py, utils.py): records[i:i + chunk_size]
\* for i in range(0, len(records), chunk_size)
chunk_records(recs, size) ==
    LET n == (Len(recs) + size - 1) \div size
    IN [k \in 1..n |-> SubSeq(recs, (k - 1) * size + 1, Min(k * size, Len(recs)))]

\* the loop state of the batchers
BatchState(batches, current_batch, current_size) ==
    [batches |-> batches, current_batch |-> current_batch, current_size |-> current_size]

\* what split_by_size adds to current_size for a record
SplitRecordCost(record) == DumpsSize(record)

\* a plausible slip: an oversized record does not flush the batch being filled
SplitStep_DropsPending(st, record, max_size_bytes) ==
    LET record_size == SplitRecordCost(record)
    IN IF record_size > max_size_bytes
       THEN BatchState(st.batches \o <<(<<record>>)>>, <<>>, 0)
       ELSE IF st.current_size + record_size > max_size_bytes
       THEN BatchState(Append(st.batches, st.current_batch), <<record>>, record_size)
       ELSE BatchState(st.batches, Append(st.current_batch, record),
                       st.current_size + record_size)

\* one iteration of the for loop of split_by_size
SplitStep(st, record, max_size_bytes) ==
    LET record_size == SplitRecordCost(record)
    IN IF record_size > max_size_bytes
       THEN BatchState(
                (IF st.current_batch # <<>> THEN Append(st.batches, st.current_batch)
                 ELSE st.batches) \o <<(<<record>>)>>,
                (IF st.current_batch # <<>> THEN <<>> ELSE st.current_batch),
                (IF st.current_batch # <<>> THEN 0 ELSE st.current_size))
       ELSE IF st.current_size + record_size > max_size_bytes
       THEN BatchState(Append(st.batches, st.current_batch), <<record>>, record_size)
       ELSE BatchState(st.batches, Append(st.current_batch, record),
                       st.current_size + record_size)

RECURSIVE SplitLoop(_, _, _)
SplitLoop(st, recs, max_size_bytes) ==
    IF recs = <<>> THEN st
    ELSE SplitLoop(SplitStep(st, recs[1], max_size_bytes), Tail(recs), max_size_bytes)

\* a plausible slip: the batch being filled is added without `if current_batch`
split_by_size_AlwaysFlush(recs, max_size_bytes) ==
    LET st == SplitLoop(BatchState(<<>>, <<>>, 0), recs, max_size_bytes)
    IN Append(st.batches, st.current_batch)

\* split_by_size (ingestion/batch.py)
split_by_size(recs, max_size_bytes) ==
    LET st == SplitLoop(BatchState(<<>>, <<>>, 0), recs, max_size_bytes)
    IN IF st.current_batch # <<>> THEN Append(st.batches, st.current_batch)
       ELSE st.batches

\* one iteration of the for loop of chunk_records_by_size
ChunkBySizeStep(st, record, max_bytes) ==
    LET record_size == DumpsSizeCompact(record)
        separator_size == IF st.current_batch # <<>> THEN 1 ELSE 0
        new_size == st.current_size + record_size + separator_size
    IN IF new_size > max_bytes /\ st.current_batch # <<>>
       THEN BatchState(Append(st.batches, st.current_batch), <<record>>, 2 + record_size)
       ELSE BatchState(st.batches, Append(st.current_batch, record), new_size)

RECURSIVE ChunkBySizeLoop(_, _, _)
ChunkBySizeLoop(st, recs, max_bytes) ==
    IF recs = <<>> THEN st
    ELSE ChunkBySizeLoop(ChunkBySizeStep(st, recs[1], max_bytes), Tail(recs), max_bytes)

\* chunk_records_by_size (utils.py)
chunk_records_by_size(recs, max_bytes) ==
    IF recs = <<>> THEN <<>>
    ELSE LET st == ChunkBySizeLoop(BatchState(<<>>, <<>>, 2), recs, max_bytes)
         IN IF st.current_batch # <<>> THEN Append(st.batches, st.current_batch)
            ELSE st.batches

\* max_payload_size of post_rows_to_dcr_enhanced
max_payload_size == 950 * 1024

\* get_batch_size of post_rows_to_dcr_enhanced: json.dumps(batch, default=str)
get_batch_size(batch) == estimate_payload_size(batch)

\* one iteration of the batching loop of post_rows_to_dcr_enhanced; a batch
\* put in `batches` is a batch handed to send_batch
EnhancedStep(st, record, max_bytes) ==
    LET record_size == get_batch_size(<<record>>)
        flush == st.current_batch # <<>> /\ st.current_size + record_size > max_bytes
    IN BatchState(
           (IF flush THEN Append(st.batches, st.current_batch) ELSE st.batches),
           Append((IF flush THEN <<>> ELSE st.current_batch), record),
           (IF flush THEN 0 ELSE st.current_size) + record_size)

RECURSIVE EnhancedLoop(_, _, _)
EnhancedLoop(st, recs, max_bytes) ==
    IF recs = <<>> THEN st
    ELSE EnhancedLoop(EnhancedStep(st, recs[1], max_bytes), Tail(recs), max_bytes)

\* the batches post_rows_to_dcr_enhanced sends, in order
EnhancedBatches(recs) ==
    LET st == EnhancedLoop(BatchState(<<>>, <<>>, 0), recs, max_payload_size)
    IN IF st.current_batch # <<>> THEN Append(st.batches, st.current_batch)
       ELSE st.batches

----------------------------------------------------------------------------
(* The batchers on their own: a record list and a limit are chosen, one     *)
(* batcher runs on them.                                                   *)

\* pad lengths: a small record, a record of just under half of
\* max_payload_size, a record larger than max_payload_size
BatchPads == {0, 486378, 972790}

\* limits: one small record, two half records less 2 bytes, max_payload_size
BatchLimits == {25, 972798, max_payload_size}

\* record lists of length n whose ids are the positions
RecordLists(n, pads) ==
    {[i \in 1..n |-> Rec(i, f[i])] : f \in [1..n -> pads]}

BatchInit ==
    /\ MapperIdle
    /\ CycleIdle
    /\ StrategyIdle
    /\ FetchIdle
    /\ RetryIdle
    /\ IngestIdle
    /\ \E n \in 0..MaxBatchRecords : b_records \in RecordLists(n, BatchPads)
    /\ b_max_bytes \in BatchLimits
    /\ b_chunk_size \in 1..MaxChunkSize
    /\ b_fn = "none"
    /\ b_batches = <<>>

RunSplitBySize ==
    /\ b_fn = "none"
    /\ b_fn' = "split_by_size"
    /\ b_batches' = split_by_size(b_records, b_max_bytes)
    /\ UNCHANGED <<b_records, b_max_bytes, b_chunk_size>>
    /\ UNCHANGED <<retryVars, ingestVars, fetchVars, strategyVars, mapperVars, cycleVars>>

RunChunkRecordsBySize ==
    /\ b_fn = "none"
    /\ b_fn' = "chunk_records_by_size"
    /\ b_batches' = chunk_records_by_size(b_records, b_max_bytes)
    /\ UNCHANGED <<b_records, b_max_bytes, b_chunk_size>>
    /\ UNCHANGED <<retryVars, ingestVars, fetchVars, strategyVars, mapperVars, cycleVars>>

\* the batching loop of post_rows_to_dcr_enhanced; its limit is fixed
RunEnhancedBatching ==
    /\ b_fn = "none"
    /\ b_max_bytes = max_payload_size
    /\ b_fn' = "post_rows_to_dcr_enhanced"
    /\ b_batches' = EnhancedBatches(b_records)
    /\ UNCHANGED <<b_records, b_max_bytes, b_chunk_size>>
    /\ UNCHANGED <<retryVars, ingestVars, fetchVars, strategyVars, mapperVars, cycleVars>>

\* chunk_records, the batcher AzureMonitorIngestionClient.ingest runs: every
\* chunk it yields is handed to _upload_chunk
RunChunkRecords ==
    /\ b_fn = "none"
    /\ b_fn' = "chunk_records"
    /\ b_batches' = chunk_records(b_records, b_chunk_size)
    /\ UNCHANGED <<b_records, b_max_bytes, b_chunk_size>>
    /\ UNCHANGED <<retryVars, ingestVars, fetchVars, strategyVars, mapperVars, cycleVars>>

BatchNext ==
    \/ RunSplitBySize
    \/ RunChunkRecordsBySize
    \/ RunEnhancedBatching
    \/ RunChunkRecords

SpecBatch == BatchInit /\ [][BatchNext]_vars

\* a batch that is one record larger than the limit on its own
IsSingleOversized(batch, limit) ==
    Len(batch) = 1 /\ DumpsSize(batch[1]) > limit

\* C4: every batch produced by the size-aware batchers that is not a single
\* record larger than max_bytes has a serialized size of the whole batch (as
\* estimate_payload_size measures it) of at most max_bytes.
C4_BatchSize ==
    b_fn # "chunk_records" =>
        \A k \in 1..Len(b_batches) :
            \/ IsSingleOversized(b_batches[k], b_max_bytes)
            \/ estimate_payload_size(b_batches[k]) <= b_max_bytes

\* the batches one after the other
RECURSIVE Concat(_)
Concat(batches) ==
    IF batches = <<>> THEN <<>> ELSE batches[1] \o Concat(Tail(batches))

\* C13: for every record sequence, the batches chunk_records, split_by_size
\* and chunk_records_by_size emit, concatenated in the order emitted, are
\* exactly the input sequence: no record dropped, duplicated, reordered or
\* split across batches.
C13_BatchesConcatenate ==
    b_fn \in {"chunk_records", "split_by_size", "chunk_records_by_size"} =>
        Concat(b_batches) = b_records

\* split_by_size met an oversized record while a batch of two was being filled
C13_Witness ==
    /\ b_fn = "split_by_size"
    /\ Len(b_batches) >= 2
    /\ Len(b_batches[1]) >= 2
    /\ IsSingleOversized(b_batches[2], b_max_bytes)

\* C14: every batch ingest hands to an upload call holds at most max_count
\* records and, unless it is a single oversized record, at most max_bytes
\* serialized bytes.
C14_BothLimits ==
    b_fn = "chunk_records" =>
        \A k \in 1..Len(b_batches) :
            /\ Len(b_batches[k]) <= b_chunk_size
            /\ \/ IsSingleOversized(b_batches[k], b_max_bytes)
               \/ estimate_payload_size(b_batches[k]) <= b_max_bytes

\* C29: for every record sequence, every max_size_bytes >= 1 and every
\* chunk_size >= 1, no batcher emits an empty batch, and an empty input
\* yields no batch at all.
C29_NoEmptyBatch ==
    b_fn # "none" =>
        /\ \A k \in 1..Len(b_batches) : b_batches[k] # <<>>
        /\ b_records = <<>> => b_batches = <<>>

\* split_by_size ended on an oversized record, which leaves the batch being
\* filled empty at the end of the loop
C29_Witness ==
    /\ b_fn = "split_by_size"
    /\ Len(b_records) >= 2
    /\ DumpsSize(b_records[Len(b_records)]) > b_max_bytes
    /\ Len(b_batches) >= 2

\* a record larger than the limit on its own, in the measure of the batcher
\* that ran: json.dumps(record) in split_by_size, the compact form in
\* chunk_records_by_size
IsOversized(record, fn, limit) ==
    IF fn = "chunk_records_by_size" THEN DumpsSizeCompact(record) > limit
    ELSE DumpsSize(record) > limit

\* what a batcher hands its caller about a batch besides the records: both
\* return lists of record lists (List[List[dict]], Generator[List[dict]]) and
\* nothing else
BatchMarks(batch) == {}

\* C23: every record whose own serialized size exceeds max_bytes is emitted by
\* the size-aware batchers split_by_size and chunk_records_by_size in a batch
\* that contains it alone, and that batch is marked oversized for the caller.
C23_OversizedAloneFlagged ==
    b_fn \in {"split_by_size", "chunk_records_by_size"} =>
        \A k \in 1..Len(b_batches) :
            (\E i \in 1..Len(b_batches[k]) :
                 IsOversized(b_batches[k][i], b_fn, b_max_bytes)) =>
                /\ Len(b_batches[k]) = 1
                /\ "oversized" \in BatchMarks(b_batches[k])

----------------------------------------------------------------------------
(* RetryPolicy.execute on its own: one call of execute, the operation's    *)
(* outcome chosen freely at every invocation.                              *)

RetryInit ==
    /\ MapperIdle
    /\ CycleIdle
    /\ StrategyIdle
    /\ FetchIdle
    /\ BatchIdle
    /\ IngestIdle
    /\ max_retries \in -1..MaxRetries
    /\ exponential \in BOOLEAN
    /\ attempt = 0
    /\ last_exception = NoError
    /\ calls = 0
    /\ classified = "none"
    /\ rsleeps = <<>>
    /\ rpc = "running"

\* func() is invoked and returns
ExecuteSuccess ==
    /\ rpc = "running"
    /\ LoopGuard(attempt, max_retries)
    /\ LET p == ExecutePass(attempt, max_retries, exponential, NoError)
       IN /\ attempt' = p.attempt
          /\ rpc' = p.ends
    /\ calls' = calls + 1
    /\ UNCHANGED <<max_retries, exponential, last_exception, classified, rsleeps>>
    /\ UNCHANGED <<batchVars, ingestVars, fetchVars, strategyVars, mapperVars, cycleVars>>

\* func() is invoked and raises e
ExecuteFailure ==
    /\ rpc = "running"
    /\ LoopGuard(attempt, max_retries)
    /\ \E e \in AllErrors :
         LET p == ExecutePass(attempt, max_retries, exponential, e)
         IN /\ attempt' = p.attempt
            /\ last_exception' = e
            /\ classified' = IF p.retryable THEN "retryable" ELSE "fatal"
            /\ rpc' = IF p.ends = "sleep" THEN "running" ELSE p.ends
            /\ rsleeps' = IF p.ends = "sleep" THEN Append(rsleeps, p.delay) ELSE rsleeps
    /\ calls' = calls + 1
    /\ UNCHANGED <<max_retries, exponential>>
    /\ UNCHANGED <<batchVars, ingestVars, fetchVars, strategyVars, mapperVars, cycleVars>>

\* the loop condition is false: the statements after the loop
ExecuteLoopExit ==
    /\ rpc = "running"
    /\ ~LoopGuard(attempt, max_retries)
    /\ rpc' = "raised"
    /\ UNCHANGED <<max_retries, exponential, attempt, last_exception, calls,
                   classified, rsleeps>>
    /\ UNCHANGED <<batchVars, ingestVars, fetchVars, strategyVars, mapperVars, cycleVars>>

RetryNext == ExecuteSuccess \/ ExecuteFailure \/ ExecuteLoopExit

SpecRetry == RetryInit /\ [][RetryNext]_vars

\* C2: for every max_retries >= 0 and every sequence of outcomes, one call of
\* RetryPolicy.execute invokes the operation at most max_retries + 1 times.
C2_RetryBound == max_retries >= 0 => calls <= max_retries + 1

\* every retry was used up on retryable errors and execute raised
C2_Witness ==
    /\ max_retries >= 1
    /\ rpc = "raised"
    /\ classified = "retryable"
    /\ calls = max_retries + 1
    /\ Len(rsleeps) = max_retries

\* C20: when an attempt of execute fails with an error _should_retry classifies
\* as non-retryable, execute raises that error at once, on whichever attempt
\* it occurs: the failed call is the last call, and no sleep follows it (each
\* of the calls before it was followed by one backoff sleep).
C20_NonRetryableRaisesAtOnce ==
    classified = "fatal" =>
        /\ rpc = "raised"
        /\ last_exception # NoError
        /\ ~ShouldRetry(last_exception.text)
        /\ Len(rsleeps) = calls - 1

\* a non-retryable error on a later attempt, after a retryable one
C20_Witness ==
    /\ classified = "fatal"
    /\ rpc = "raised"
    /\ calls >= 2
    /\ calls <= max_retries

\* the error message carries a Retry-After hint: the words and a number
HasRetryAfterHint(error_msg) ==
    /\ Contains(Lower(error_msg), SRetryAfter)
    /\ FirstDigits(AfterRetryAfter(Lower(error_msg))) # <<>>

\* the number of seconds of the hint
RetryAfterHint(error_msg) == DigitsToInt(FirstDigits(AfterRetryAfter(Lower(error_msg))))

\* C21: the delay slept after failed attempt k is min(max_delay, d), d the
\* Retry-After hint of the error when it carries one, whatever the kind of the
\* retryable error, and otherwise base_delay * 2^(k-1) in exponential mode or
\* base_delay * k in linear mode; no sleep is longer than max_delay.
C21_DelayFormula ==
    (rpc = "running" /\ rsleeps # <<>>) =>
        /\ rsleeps[Len(rsleeps)] =
              Min(MaxDelay,
                  IF HasRetryAfterHint(last_exception.text)
                  THEN RetryAfterHint(last_exception.text)
                  ELSE IF exponential THEN BaseDelay * Pow2(attempt - 1)
                  ELSE BaseDelay * attempt)
        /\ \A i \in 1..Len(rsleeps) : rsleeps[i] <= MaxDelay

\* the classification the specification calls canonical: by HTTP status, or a
\* connection/timeout error (no HTTP response)
IsTransient(e) == e.status \in {429, 500, 502, 503, 504} \/ e.status = 0

\* C6: RetryPolicy classifies an error as retryable if and only if it is an
\* HTTP 429/500/502/503/504 response or a connection/timeout error; an error
\* with status 400/401/403/404/413 is non-retryable whatever its message.
C6_Classification ==
    classified # "none" => ((classified = "retryable") <=> IsTransient(last_exception))

----------------------------------------------------------------------------
(* One ingestion call.  A step is one upload call together with what the   *)
(* caller does with its outcome, up to the next upload call or the return. *)
(* An upload returns (NoError) or raises one of UploadErrors.              *)

UploadErrors == {E401, E401Timeout, E413, E429, E503, E503Unavailable}

\* the batches the call uploads, in order
Batches ==
    IF impl = "post_rows_to_dcr_enhanced" THEN EnhancedBatches(records)
    ELSE chunk_records(records, chunk_size)

\* the chunk being processed
Chunk == Batches[chunk_idx + 1]

RECURSIVE SumOfSizes(_)
SumOfSizes(failed) ==
    IF failed = <<>> THEN 0 ELSE failed[1].size + SumOfSizes(Tail(failed))

\* a plausible slip: the status does not look at the failed chunks
StatusOf_AlwaysCompleted(failed) == "completed"

\* "completed" if not failed_chunks else "partial"
StatusOf(failed) == IF failed = <<>> THEN "completed" ELSE "partial"

\* the result summary of AzureMonitorIngestionClient.ingest and post_rows_to_dcr
Summary(ingested, failed) ==
    [status |-> StatusOf(failed),
     ingested_count |-> ingested,
     failed_count |-> SumOfSizes(failed),
     total_count |-> Len(records),
     failed_chunks |-> failed]

\* the result summary of post_rows_to_dcr_enhanced
EnhancedSummary(successful, failed, sent_batches, errs) ==
    [total_records |-> Len(records),
     successful_records |-> successful,
     failed_records |-> failed,
     batches_sent |-> sent_batches,
     errors |-> errs]

\* the summary for the present implementation
ResultOf(ingested, failed, failedrecs) ==
    IF impl = "post_rows_to_dcr_enhanced"
    THEN EnhancedSummary(ingested, failedrecs, Len(Batches), failed)
    ELSE Summary(ingested, failed)

\* the chunk is left behind with these totals: the next chunk is taken, or
\* the loop over the chunks is over and the summary is returned
EndChunk(ingested, failed, failedrecs, entry) ==
    /\ total_ingested' = ingested
    /\ failed_chunks' = failed
    /\ failed_records' = failedrecs
    /\ chunk_log' = Append(chunk_log, entry)
    /\ cur' = FreshChunk
    /\ chunk_idx' = chunk_idx + 1
    /\ half_idx' = 0
    /\ retry_count' = 0
    /\ attempt' = 0
    /\ IF chunk_idx + 1 >= Len(Batches)
       THEN /\ ipc' = "returned"
            /\ result' = ResultOf(ingested, failed, failedrecs)
       ELSE /\ ipc' = "upload"
            /\ UNCHANGED result

\* the chunk stays: another upload call follows
StayInChunk(entry) ==
    /\ cur' = entry
    /\ UNCHANGED <<total_ingested, failed_chunks, failed_records, chunk_log,
                   chunk_idx, result>>

\* pad lengths for post_rows_to_dcr_enhanced: a small record and a record
\* larger than max_payload_size, which is sent in a batch of its own
EnhancedPads == {0, 972790}

IngestInit ==
    /\ MapperIdle
    /\ CycleIdle
    /\ StrategyIdle
    /\ FetchIdle
    /\ BatchIdle
    /\ impl \in {"ingest", "post_rows_to_dcr", "post_rows_to_dcr_enhanced"}
    /\ \E n \in 0..MaxIngestRecords :
          records \in RecordLists(n, IF impl = "post_rows_to_dcr_enhanced"
                                     THEN EnhancedPads ELSE {0})
    /\ chunk_size \in (IF impl = "post_rows_to_dcr_enhanced" THEN {1} ELSE 1..MaxChunkSize)
    /\ max_retries \in 0..MaxRetries
    /\ exponential = TRUE
    /\ attempt = 0
    /\ last_exception = NoError
    /\ calls = 0
    /\ classified = "none"
    /\ rsleeps = <<>>
    /\ rpc = "idle"
    /\ ipc = "called"
    /\ chunk_idx = 0
    /\ half_idx = 0
    /\ retry_count = 0
    /\ total_ingested = 0
    /\ failed_chunks = <<>>
    /\ failed_records = 0
    /\ cur = FreshChunk
    /\ chunk_log = <<>>
    /\ result = NoResult
    /\ cancelled = FALSE

\* AzureMonitorIngestionClient.ingest up to its loop: `if not records`
IngestCall ==
    /\ ipc = "called"
    /\ impl = "ingest"
    /\ IF records = <<>>
       THEN /\ ipc' = "returned"
            /\ result' = [status |-> "skipped", ingested_count |-> 0,
                          failed_count |-> 0, total_count |-> 0]
       ELSE /\ ipc' = "upload"
            /\ UNCHANGED result
    /\ UNCHANGED <<cancelled, impl, records, chunk_size, chunk_idx, half_idx, retry_count,
                   total_ingested, failed_chunks, failed_records, cur, chunk_log>>
    /\ UNCHANGED <<retryVars, batchVars, fetchVars, strategyVars, mapperVars, cycleVars>>

\* post_rows_to_dcr up to its loop
PostRowsCall ==
    /\ ipc = "called"
    /\ impl = "post_rows_to_dcr"
    /\ IF records = <<>>
       THEN /\ ipc' = "returned"
            /\ result' = [status |-> "skipped", ingested_count |-> 0]
       ELSE /\ ipc' = "upload"
            /\ UNCHANGED result
    /\ UNCHANGED <<cancelled, impl, records, chunk_size, chunk_idx, half_idx, retry_count,
                   total_ingested, failed_chunks, failed_records, cur, chunk_log>>
    /\ UNCHANGED <<retryVars, batchVars, fetchVars, strategyVars, mapperVars, cycleVars>>

\* post_rows_to_dcr_enhanced up to the first send_batch; with no record the
\* loop and the final `if current_batch` send nothing
EnhancedCall ==
    /\ ipc = "called"
    /\ impl = "post_rows_to_dcr_enhanced"
    /\ IF records = <<>>
       THEN /\ ipc' = "returned"
            /\ result' = EnhancedSummary(0, 0, 0, <<>>)
       ELSE /\ ipc' = "upload"
            /\ UNCHANGED result
    /\ UNCHANGED <<cancelled, impl, records, chunk_size, chunk_idx, half_idx, retry_count,
                   total_ingested, failed_chunks, failed_records, cur, chunk_log>>
    /\ UNCHANGED <<retryVars, batchVars, fetchVars, strategyVars, mapperVars, cycleVars>>

\* ---- AzureMonitorIngestionClient.ingest: one pass of retry_policy.execute

\* the entry ingest appends to failed_chunks
IngestFailedEntry(e) ==
    [chunk |-> chunk_idx + 1, size |-> Len(Chunk), error |-> e.text]

\* _upload_chunk returns
IngestUploadOk ==
    /\ ipc = "upload"
    /\ impl = "ingest"
    /\ LoopGuard(attempt, max_retries)
    /\ EndChunk(total_ingested + Len(Chunk), failed_chunks, failed_records,
                [cur EXCEPT !.calls = @ + 1, !.last = NoError, !.sent = Len(Chunk)])
    /\ UNCHANGED <<cancelled, impl, records, chunk_size>>
    /\ UNCHANGED <<max_retries, exponential, last_exception, calls, classified,
                   rsleeps, rpc>>
    /\ UNCHANGED <<batchVars, fetchVars, strategyVars, mapperVars, cycleVars>>

\* _upload_chunk raises e
IngestUploadError ==
    /\ ipc = "upload"
    /\ impl = "ingest"
    /\ LoopGuard(attempt, max_retries)
    /\ \E e \in UploadErrors :
         LET p == ExecutePass(attempt, max_retries, exponential, e)
             entry == [cur EXCEPT !.calls = @ + 1, !.last = e]
         IN IF p.ends = "sleep"
            THEN /\ StayInChunk(entry)
                 /\ attempt' = p.attempt
                 /\ rsleeps' = Append(rsleeps, p.delay)
                 /\ UNCHANGED <<ipc, half_idx, retry_count>>
            ELSE /\ EndChunk(total_ingested, Append(failed_chunks, IngestFailedEntry(e)),
                             failed_records, [entry EXCEPT !.failed = Len(Chunk)])
                 /\ UNCHANGED rsleeps
    /\ UNCHANGED <<cancelled, impl, records, chunk_size>>
    /\ UNCHANGED <<max_retries, exponential, last_exception, calls, classified, rpc>>
    /\ UNCHANGED <<batchVars, fetchVars, strategyVars, mapperVars, cycleVars>>

\* ---- post_rows_to_dcr (ingestion.py)

IsRateLimit(msg) == Contains(msg, S429) \/ Contains(Lower(msg), SRateLimit)

IsTooLarge(msg) == Contains(msg, S413) \/ Contains(Lower(msg), STooLarge)

\* smaller_chunks = [chunk[:mid], chunk[mid:]]
SmallerChunks(chunk) ==
    LET mid == Len(chunk) \div 2
    IN <<SubSeq(chunk, 1, mid), SubSeq(chunk, mid + 1, Len(chunk))>>

\* the `while retry_count <= max_retries` condition
PostRowsLoopGuard(rc, maxr) == rc <= maxr

\* client.upload returns
PostRowsUploadOk ==
    /\ ipc = "upload"
    /\ impl = "post_rows_to_dcr"
    /\ PostRowsLoopGuard(retry_count, max_retries)
    /\ EndChunk(total_ingested + Len(Chunk), failed_chunks, failed_records,
                [cur EXCEPT !.calls = @ + 1, !.last = NoError, !.sent = Len(Chunk)])
    /\ UNCHANGED <<cancelled, impl, records, chunk_size>>
    /\ UNCHANGED <<max_retries, exponential, last_exception, calls, classified,
                   rsleeps, rpc>>
    /\ UNCHANGED <<batchVars, fetchVars, strategyVars, mapperVars, cycleVars>>

\* client.upload raises e
PostRowsUploadError ==
    /\ ipc = "upload"
    /\ impl = "post_rows_to_dcr"
    /\ PostRowsLoopGuard(retry_count, max_retries)
    /\ \E e \in UploadErrors :
         LET rc == retry_count + 1
             entry == [cur EXCEPT !.calls = @ + 1, !.last = e]
             again == PostRowsLoopGuard(rc, max_retries)
         IN IF IsRateLimit(e.text)
            THEN \* sleep, then the loop condition is tested again
                 /\ rsleeps' = Append(rsleeps, Min(60 * Pow2(rc), 300))
                 /\ IF again
                    THEN /\ StayInChunk(entry)
                         /\ retry_count' = rc
                         /\ UNCHANGED <<ipc, half_idx, attempt>>
                    ELSE EndChunk(total_ingested, failed_chunks, failed_records, entry)
            ELSE IF IsTooLarge(e.text)
            THEN /\ UNCHANGED rsleeps
                 /\ IF Len(Chunk) > 1
                    THEN /\ StayInChunk(entry)
                         /\ retry_count' = rc
                         /\ ipc' = "halves"
                         /\ half_idx' = 1
                         /\ UNCHANGED attempt
                    ELSE EndChunk(total_ingested,
                                  Append(failed_chunks,
                                         [chunk |-> chunk_idx, size |-> 1, error |-> e.text]),
                                  failed_records, [entry EXCEPT !.failed = 1])
            ELSE IF again
            THEN /\ rsleeps' = Append(rsleeps, Min(30 * rc, 120))
                 /\ StayInChunk(entry)
                 /\ retry_count' = rc
                 /\ UNCHANGED <<ipc, half_idx, attempt>>
            ELSE /\ UNCHANGED rsleeps
                 /\ EndChunk(total_ingested,
                             Append(failed_chunks,
                                    [chunk |-> chunk_idx, size |-> Len(Chunk),
                                     error |-> e.text]),
                             failed_records, [entry EXCEPT !.failed = Len(Chunk)])
    /\ UNCHANGED <<cancelled, impl, records, chunk_size>>
    /\ UNCHANGED <<max_retries, exponential, last_exception, calls, classified, rpc>>
    /\ UNCHANGED <<batchVars, fetchVars, strategyVars, mapperVars, cycleVars>>

\* the upload of one of the two smaller chunks: once, outcome NoError or an error
PostRowsHalfUpload ==
    /\ ipc = "halves"
    /\ impl = "post_rows_to_dcr"
    /\ \E outcome \in UploadErrors \cup {NoError} :
         LET small_chunk == SmallerChunks(Chunk)[half_idx]
             ingested == IF outcome = NoError THEN total_ingested + Len(small_chunk)
                         ELSE total_ingested
             failed == IF outcome = NoError THEN failed_chunks
                       ELSE Append(failed_chunks,
                                   [chunk |-> chunk_idx, size |-> Len(small_chunk),
                                    error |-> outcome.text])
             entry == [cur EXCEPT !.half_calls = @ + 1,
                                  !.sent = IF outcome = NoError THEN @ + Len(small_chunk) ELSE @,
                                  !.failed = IF outcome = NoError THEN @ ELSE @ + Len(small_chunk)]
         IN IF half_idx < 2
            THEN /\ total_ingested' = ingested
                 /\ failed_chunks' = failed
                 /\ cur' = entry
                 /\ half_idx' = half_idx + 1
                 /\ UNCHANGED <<ipc, chunk_idx, retry_count, failed_records, chunk_log,
                                result, attempt>>
            ELSE EndChunk(ingested, failed, failed_records, entry)
    /\ UNCHANGED <<cancelled, impl, records, chunk_size>>
    /\ UNCHANGED <<max_retries, exponential, last_exception, calls, classified,
                   rsleeps, rpc>>
    /\ UNCHANGED <<batchVars, fetchVars, strategyVars, mapperVars, cycleVars>>

\* ---- post_rows_to_dcr_enhanced (ingestion.py): send_batch

\* `for attempt in range(max_retries)` has another value
SendLoopGuard(att, maxr) == att < maxr

\* the entry send_batch appends to errors
SendError(status) == [batch |-> chunk_idx + 1, status |-> status]

\* requests.post answers 204
EnhancedSendOk ==
    /\ ipc = "upload"
    /\ impl = "post_rows_to_dcr_enhanced"
    /\ SendLoopGuard(attempt, max_retries)
    /\ EndChunk(total_ingested + Len(Chunk), failed_chunks, failed_records,
                [cur EXCEPT !.calls = @ + 1, !.last = NoError, !.sent = Len(Chunk)])
    /\ UNCHANGED <<cancelled, impl, records, chunk_size>>
    /\ UNCHANGED <<max_retries, exponential, last_exception, calls, classified,
                   rsleeps, rpc>>
    /\ UNCHANGED <<batchVars, fetchVars, strategyVars, mapperVars, cycleVars>>

\* requests.post answers with an error status, or raises (status 0)
EnhancedSendError ==
    /\ ipc = "upload"
    /\ impl = "post_rows_to_dcr_enhanced"
    /\ SendLoopGuard(attempt, max_retries)
    /\ \E e \in UploadErrors :
         LET entry == [cur EXCEPT !.calls = @ + 1, !.last = e]
             fail(status) ==
                 EndChunk(total_ingested, Append(failed_chunks, SendError(status)),
                          failed_records + Len(Chunk),
                          [entry EXCEPT !.failed = Len(Chunk)])
             sleep_and_loop ==
                 /\ StayInChunk(entry)
                 /\ attempt' = attempt + 1
                 /\ rsleeps' = Append(rsleeps, BaseDelay * Pow2(attempt))
                 /\ UNCHANGED <<ipc, half_idx, retry_count>>
         IN IF e.status \in {401, 403, 404}
            THEN fail(e.status) /\ UNCHANGED rsleeps
            ELSE IF e.status = 429
            THEN sleep_and_loop
            ELSE IF attempt = max_retries - 1
            THEN fail(IF e.status = 0 THEN -1 ELSE e.status) /\ UNCHANGED rsleeps
            ELSE sleep_and_loop
    /\ UNCHANGED <<cancelled, impl, records, chunk_size>>
    /\ UNCHANGED <<max_retries, exponential, last_exception, calls, classified, rpc>>
    /\ UNCHANGED <<batchVars, fetchVars, strategyVars, mapperVars, cycleVars>>

\* the for loop of send_batch is over: send_batch returns
EnhancedSendLoopEnd ==
    /\ ipc = "upload"
    /\ impl = "post_rows_to_dcr_enhanced"
    /\ ~SendLoopGuard(attempt, max_retries)
    /\ EndChunk(total_ingested, failed_chunks, failed_records, cur)
    /\ UNCHANGED <<cancelled, impl, records, chunk_size>>
    /\ UNCHANGED <<max_retries, exponential, last_exception, calls, classified,
                   rsleeps, rpc>>
    /\ UNCHANGED <<batchVars, fetchVars, strategyVars, mapperVars, cycleVars>>

\* the dictionary r has the key f with the value v
HasValue(r, f, v) == f \in DOMAIN r /\ r[f] = v

IngestNext ==
    \/ IngestCall
    \/ PostRowsCall
    \/ EnhancedCall
    \/ IngestUploadOk
    \/ IngestUploadError
    \/ PostRowsUploadOk
    \/ PostRowsUploadError
    \/ PostRowsHalfUpload
    \/ EnhancedSendOk
    \/ EnhancedSendError
    \/ EnhancedSendLoopEnd

SpecIngest == IngestInit /\ [][IngestNext]_vars

\* The call is cancelled: a KeyboardInterrupt (SIGINT) is delivered while the
\* call is in an upload or in the time.sleep before it.  It is a BaseException:
\* no `except Exception` of execute, ingest, post_rows_to_dcr or send_batch
\* catches it, it leaves the call and no result is returned.
IngestCancel ==
    /\ ipc \in {"upload", "halves"}
    /\ cancelled' = TRUE
    /\ ipc' = "raised"
    /\ UNCHANGED <<impl, records, chunk_size, chunk_idx, half_idx, retry_count,
                   total_ingested, failed_chunks, failed_records, cur, chunk_log,
                   result>>
    /\ UNCHANGED <<retryVars, batchVars, fetchVars, strategyVars, mapperVars, cycleVars>>

IngestCancelNext == IngestNext \/ IngestCancel

\* an ingestion call that may be cancelled
SpecIngestCancel == IngestInit /\ [][IngestCancelNext]_vars

\* C19: when a cancellation arrives while ingest is in an upload call or
\* a backoff sleep, the call returns a result with status partial whose sent
\* count is the records of the batches uploaded before the cancellation; it
\* does not raise.
C19_CancelReturnsPartial ==
    (impl = "ingest" /\ cancelled) =>
        /\ ipc = "returned"
        /\ HasValue(result, "status", "partial")
        /\ HasValue(result, "ingested_count", total_ingested)

\* the counts of a result, under the names each implementation gives them
SentCount == IF impl = "post_rows_to_dcr_enhanced" THEN result.successful_records
             ELSE result.ingested_count

FailedCount == IF impl = "post_rows_to_dcr_enhanced" THEN result.failed_records
               ELSE result.failed_count

TotalCount == IF impl = "post_rows_to_dcr_enhanced" THEN result.total_records
              ELSE result.total_count

\* C1: for every record list and every sequence of upload outcomes, the
\* result of an ingestion call satisfies sent + failed = total.
C1_Conservation ==
    (ipc = "returned" /\ records # <<>>) => SentCount + FailedCount = TotalCount

\* the index each implementation records for the k-th chunk
ChunkIndex(k) == IF impl = "ingest" THEN k ELSE k - 1

\* the k-th chunk was uploaded whole, never split, and no upload succeeded
FailedAllAttempts(k) ==
    /\ chunk_log[k].calls >= 1
    /\ chunk_log[k].half_calls = 0
    /\ chunk_log[k].sent = 0

\* C3: in ingest and post_rows_to_dcr, when the upload of batch i fails on all
\* its attempts the batch is recorded in the failed list with its index, size
\* and final error, and every later batch is still uploaded; the call neither
\* ends early nor raises.
C3_FailedBatchRecorded ==
    impl \in {"ingest", "post_rows_to_dcr"} =>
        \A k \in 1..Len(chunk_log) :
            FailedAllAttempts(k) =>
                /\ \E i \in 1..Len(failed_chunks) :
                      failed_chunks[i] = [chunk |-> ChunkIndex(k),
                                          size |-> Len(Batches[k]),
                                          error |-> chunk_log[k].last.text]
                /\ ipc # "raised"
                /\ (ipc = "returned" =>
                      /\ Len(chunk_log) = Len(Batches)
                      /\ \A j \in (k + 1)..Len(Batches) :
                            chunk_log[j].calls >= 1)

\* what happened to the first chunk
FirstChunk == IF chunk_log # <<>> THEN chunk_log[1] ELSE cur

\* the number of upload calls made so far
RECURSIVE UploadCalls(_)
UploadCalls(log) ==
    IF log = <<>> THEN 0
    ELSE log[1].calls + log[1].half_calls + UploadCalls(Tail(log))

\* C5: when the first upload call of an ingestion is rejected with HTTP 401,
\* no further upload call is made for that batch and ingest raises an
\* authentication error at once, no record counted as sent.
C5_AuthAborts ==
    (impl = "ingest" /\ FirstChunk.calls = 1 /\ FirstChunk.last.status = 401) =>
        /\ ipc = "raised"
        /\ total_ingested = 0
        /\ UploadCalls(Append(chunk_log, cur)) = 1

\* C7: when the upload of a batch of more than one record is rejected as
\* payload too large (HTTP 413), the batch is split into two halves that are
\* uploaded on their own; its records are counted as failed only after the
\* splitting has been tried.
C7_SplitBeforeFail ==
    impl \in {"ingest", "post_rows_to_dcr"} =>
        \A k \in 1..Len(chunk_log) :
            (/\ Len(Batches[k]) > 1
             /\ chunk_log[k].last.status = 413
             /\ chunk_log[k].failed > 0) => chunk_log[k].half_calls = 2

\* C22: in ingest, a batch whose upload fails k times in a row with retryable
\* errors (1 <= k <= max_retries) and then succeeds is uploaded k + 1 times
\* with k backoff sleeps: the call does not give the batch up on a retryable
\* error while retries are left; all its records are counted as sent, none as
\* failed, and the status is completed when no batch failed.
C22_RetryThenSuccess ==
    impl = "ingest" =>
        /\ \A k \in 1..Len(chunk_log) :
              /\ chunk_log[k].last = NoError =>
                    /\ chunk_log[k].calls <= max_retries + 1
                    /\ chunk_log[k].sent = Len(Batches[k])
                    /\ chunk_log[k].failed = 0
              /\ IsTransient(chunk_log[k].last) => chunk_log[k].calls = max_retries + 1
        /\ ipc = "returned" =>
              /\ Len(rsleeps) = UploadCalls(chunk_log) - Len(chunk_log)
              /\ (/\ chunk_log # <<>>
                  /\ \A k \in 1..Len(chunk_log) : chunk_log[k].last = NoError) =>
                    HasValue(result, "status", "completed")

\* C11: when ingest or post_rows_to_dcr is called with an empty record list
\* it returns status skipped with the sent, failed and total counts all zero,
\* and no upload call is made.
C11_EmptySkipped ==
    (impl \in {"ingest", "post_rows_to_dcr"} /\ records = <<>> /\ ipc # "called") =>
        /\ ipc = "returned"
        /\ HasValue(result, "status", "skipped")
        /\ HasValue(result, "ingested_count", 0)
        /\ HasValue(result, "failed_count", 0)
        /\ HasValue(result, "total_count", 0)
        /\ UploadCalls(Append(chunk_log, cur)) = 0

----------------------------------------------------------------------------
(* One fetch from the Fabric API.  A step is one HTTP request together     *)
(* with what the fetcher does with the answer, up to the next request or   *)
(* the end of the fetch.                                                   *)

MsgAuthFailed == <<"A", "u", "t", "h", "e", "n", "t", "i", "c", "a", "t", "i", "o", "n", " ", "f", "a", "i", "l", "e", "d">>
MsgPermissionDenied == <<"P", "e", "r", "m", "i", "s", "s", "i", "o", "n", " ", "d", "e", "n", "i", "e", "d">>
MsgNotFound == <<"R", "e", "s", "o", "u", "r", "c", "e", " ", "n", "o", "t", " ", "f", "o", "u", "n", "d">>
MsgApiError == <<"A", "P", "I", " ", "e", "r", "r", "o", "r">>

\* the Retry-After header of an answer: absent, "5", or a value int() rejects
NoHeader == [present |-> FALSE, value |-> <<>>]
Header(v) == [present |-> TRUE, value |-> v]
RetryAfterHeaders == {NoHeader, Header(<<"5">>), Header(<<"s", "o", "o", "n">>)}

\* int(s) succeeds: a non-empty string of digits
IsInt(s) == s # <<>> /\ \A i \in 1..Len(s) : IsDigit(s[i])

\* the default of response.headers.get('Retry-After', 60)
DefaultRetryAfter == 60

\* the answers of the upstream to one request
Answers ==
    {[status |-> 200, retry_after |-> NoHeader]}
    \cup {[status |-> 429, retry_after |-> h] : h \in RetryAfterHeaders}
    \cup {[status |-> c, retry_after |-> NoHeader] : c \in {401, 403, 404, 500}}

\* the exception classes of api/exceptions.py, with their base classes
IsFabricAPIException(class) ==
    class \in {"FabricAPIException", "FabricAuthenticationError",
               "FabricAuthorizationError", "FabricResourceNotFoundError",
               "FabricRateLimitError"}

\* FabricAPIClient._handle_response: the data is returned, or an exception
\* is raised, after a sleep for a 429 answer
HandleResponse(answer) ==
    IF answer.status = 200
    THEN [raises |-> NoException, sleep |-> -1]
    ELSE IF answer.status = 429
    THEN IF ~answer.retry_after.present
         THEN [raises |-> [class |-> "FabricRateLimitError", text |-> SRateLimited],
               sleep |-> DefaultRetryAfter]
         ELSE IF IsInt(answer.retry_after.value)
         THEN [raises |-> [class |-> "FabricRateLimitError", text |-> SRateLimited],
               sleep |-> DigitsToInt(answer.retry_after.value)]
         ELSE [raises |-> [class |-> "ValueError", text |-> answer.retry_after.value],
               sleep |-> -1]
    ELSE IF answer.status = 401
    THEN [raises |-> [class |-> "FabricAuthenticationError", text |-> MsgAuthFailed],
          sleep |-> -1]
    ELSE IF answer.status = 403
    THEN [raises |-> [class |-> "FabricAuthorizationError", text |-> MsgPermissionDenied],
          sleep |-> -1]
    ELSE IF answer.status = 404
    THEN [raises |-> [class |-> "FabricResourceNotFoundError", text |-> MsgNotFound],
          sleep |-> -1]
    ELSE [raises |-> [class |-> "FabricAPIException", text |-> MsgApiError], sleep |-> -1]

\* handle_api_response of collectors.py: the same answers, every error raised
\* as the one FabricAPIException of that module
handle_api_response(answer) ==
    LET h == HandleResponse(answer)
    IN IF h.raises.class \in {"none", "ValueError"} THEN h
       ELSE [h EXCEPT !.raises.class = "FabricAPIException"]

\* the upstream's answer to a request for the page after `token`: the items
\* of the page and the continuation token, 0 on the last page
PageOf(token) == IF token = 0 THEN 1 ELSE token

NextToken(token) == IF PageOf(token) < Len(pages) THEN PageOf(token) + 1 ELSE 0

\* since_time = datetime.now() - timedelta(hours=lookback_hours), in hours
since_time == 2

\* no timestamp in the item: parse_iso gives None
NoTime == -1

\* the items the window asks for: a timestamp, not before since_time
InWindow(item) == item.start # NoTime /\ item.start >= since_time

\* the comparison of a timezone-aware datetime with a naive one
TypeError == [class |-> "TypeError", text |-> <<>>]

\* what the filter loop gives: the items kept, or the exception it raised
Filtered(raises, items) == [raises |-> raises, items |-> items]

\* the filter loop `if start_time and start_time >= since_time: append`.
\* parse_iso returns None or a timezone-aware datetime (tzinfo is set to UTC
\* when the string has none); since_time is datetime.now() - timedelta(...),
\* a naive datetime.  An item without a timestamp is skipped before the
\* comparison; for an item with one, `>=` raises TypeError.
RECURSIVE Filter(_)
Filter(items) ==
    IF items = <<>> THEN Filtered(NoException, <<>>)
    ELSE IF items[1].start = NoTime THEN Filter(Tail(items))
    ELSE Filtered(TypeError, <<>>)

\* the filter applied `if lookback_hours`
FilterIfLookback(items) ==
    IF lookback_hours # 0 THEN Filter(items) ELSE Filtered(NoException, items)

\* the timestamps of the items of a page
PageChoices == {<<>>, <<3>>, <<1, 2>>, <<NoTime>>}

Upstreams ==
    UNION {{[k \in 1..n |-> [j \in 1..Len(f[k]) |-> [page |-> k, pos |-> j, start |-> f[k][j]]]] :
                f \in [1..n -> PageChoices]} : n \in 1..MaxPages}

Paginated == {"get_paginated", "list_item_job_instances"}

SingleRequest == {"get_dataset_refreshes", "get_capacity_utilization", "get_user_activities"}

FetchInit ==
    /\ MapperIdle
    /\ CycleIdle
    /\ StrategyIdle
    /\ RetryIdle
    /\ BatchIdle
    /\ IngestIdle
    /\ fetcher \in Paginated \cup SingleRequest
    /\ pages \in Upstreams
    /\ lookback_hours \in (IF fetcher = "get_paginated" THEN {0}
                           ELSE IF fetcher = "list_item_job_instances" THEN {24}
                           ELSE {0, 24})
    /\ fpc = "running"
    /\ continuation_token = 0
    /\ all_items = <<>>
    /\ last_request = NoRequest
    /\ slept = -1
    /\ rate_limited = 0
    /\ ferror = NoException
    /\ fresult = <<>>

\* the request: the continuation token sent and the answer received
Request(answer) ==
    [token |-> continuation_token, status |-> answer.status,
     retry_after |-> answer.retry_after]

\* the page was answered: its items are added, the next page is asked for or
\* the loop is left
PageDone(items) ==
    /\ all_items' = all_items \o items
    /\ continuation_token' = NextToken(continuation_token)
    /\ rate_limited' = 0
    /\ slept' = -1
    /\ ferror' = NoException
    /\ IF NextToken(continuation_token) = 0
       THEN fpc' = "returned" /\ fresult' = all_items \o items
       ELSE fpc' = "running" /\ UNCHANGED fresult

\* `continue`: the loop starts over with what it holds
SamePage(h) ==
    /\ slept' = h.sleep
    /\ rate_limited' = Min(rate_limited + 1, MaxRateLimited)
    /\ UNCHANGED <<all_items, continuation_token, fpc, ferror, fresult>>

\* the exception leaves the fetch
Raise(h) ==
    /\ fpc' = "raised"
    /\ ferror' = h.raises
    /\ slept' = h.sleep
    /\ UNCHANGED <<all_items, continuation_token, rate_limited, fresult>>

\* the fetch returns `items`
Return(items, h) ==
    /\ fpc' = "returned"
    /\ fresult' = items
    /\ slept' = h.sleep
    /\ UNCHANGED <<all_items, continuation_token, rate_limited, ferror>>

\* one pass of the loop of FabricAPIClient.get_paginated
GetPaginated ==
    /\ fetcher = "get_paginated"
    /\ fpc = "running"
    /\ \E answer \in Answers :
         LET h == HandleResponse(answer)
         IN /\ last_request' = Request(answer)
            /\ IF h.raises = NoException
               THEN PageDone(pages[PageOf(continuation_token)])
               ELSE IF h.raises.class = "FabricRateLimitError"
               THEN SamePage(h)
               ELSE Raise(h)
    /\ UNCHANGED <<fetcher, pages, lookback_hours>>
    /\ UNCHANGED <<retryVars, batchVars, ingestVars, strategyVars, mapperVars, cycleVars>>

\* one pass of the loop of list_item_job_instances (collectors.py)
ListItemJobInstances ==
    /\ fetcher = "list_item_job_instances"
    /\ fpc = "running"
    /\ \E answer \in Answers :
         LET h == handle_api_response(answer)
         IN /\ last_request' = Request(answer)
            /\ IF h.raises = NoException
               THEN LET f == Filter(pages[PageOf(continuation_token)])
                    IN IF f.raises = NoException THEN PageDone(f.items)
                       ELSE Raise([raises |-> f.raises, sleep |-> h.sleep])
               ELSE IF h.raises.class = "FabricAPIException"
                       /\ Contains(h.raises.text, SRateLimited)
               THEN SamePage(h)
               ELSE Raise(h)
    /\ UNCHANGED <<fetcher, pages, lookback_hours>>
    /\ UNCHANGED <<retryVars, batchVars, ingestVars, strategyVars, mapperVars, cycleVars>>

\* FabricAPIClient.get_dataset_refreshes and get_capacity_utilization: one
\* GET, `except FabricAPIException: return []`
GetSwallowing ==
    /\ fetcher \in {"get_dataset_refreshes", "get_capacity_utilization"}
    /\ fpc = "running"
    /\ \E answer \in Answers :
         LET h == HandleResponse(answer)
         IN /\ last_request' = Request(answer)
            /\ IF h.raises = NoException
               THEN LET f == FilterIfLookback(pages[1])
                    IN IF f.raises = NoException THEN Return(f.items, h)
                       ELSE Raise([raises |-> f.raises, sleep |-> h.sleep])
               ELSE IF IsFabricAPIException(h.raises.class)
               THEN Return(<<>>, h)
               ELSE Raise(h)
    /\ UNCHANGED <<fetcher, pages, lookback_hours>>
    /\ UNCHANGED <<retryVars, batchVars, ingestVars, strategyVars, mapperVars, cycleVars>>

\* FabricAPIClient.get_user_activities: one GET, both except clauses return []
GetUserActivities ==
    /\ fetcher = "get_user_activities"
    /\ fpc = "running"
    /\ \E answer \in Answers :
         LET h == HandleResponse(answer)
         IN /\ last_request' = Request(answer)
            /\ IF h.raises = NoException
               THEN LET f == FilterIfLookback(pages[1])
                    IN IF f.raises = NoException THEN Return(f.items, h)
                       ELSE Raise([raises |-> f.raises, sleep |-> h.sleep])
               ELSE IF h.raises.class = "FabricAuthorizationError"
               THEN Return(<<>>, h)
               ELSE IF IsFabricAPIException(h.raises.class)
               THEN Return(<<>>, h)
               ELSE Raise(h)
    /\ UNCHANGED <<fetcher, pages, lookback_hours>>
    /\ UNCHANGED <<retryVars, batchVars, ingestVars, strategyVars, mapperVars, cycleVars>>

FetchNext == GetPaginated \/ ListItemJobInstances \/ GetSwallowing \/ GetUserActivities

SpecFetch == FetchInit /\ [][FetchNext]_vars

\* the seconds the specification asks the fetcher to sleep for a 429 answer
ExpectedSleep(header) ==
    IF header.present /\ IsInt(header.value) THEN DigitsToInt(header.value)
    ELSE DefaultRetryAfter

\* C8: during a paginated fetch, whenever a page request is answered with HTTP
\* 429 the fetcher sleeps for the Retry-After seconds (60 when the header is
\* absent or not a number) and then issues the next request with the same
\* continuation token.
C8_RateLimitSamePage ==
    (fetcher \in Paginated /\ last_request.status = 429) =>
        /\ fpc = "running"
        /\ slept = ExpectedSleep(last_request.retry_after)
        /\ continuation_token = last_request.token

\* the default max_retries of RetryPolicy, the cap the fetcher is to honor
RetryCap == 3

\* C9: a paginated fetch always terminates: when the same page is answered
\* with HTTP 429 on every request, the fetcher stops after the retry cap and
\* aborts the fetch with a rate-limit error.
C9_RetryCapHonored ==
    (fetcher \in Paginated /\ rate_limited >= RetryCap + 1) => fpc = "raised"

\* C10: whenever a request made while fetching a data source is answered with
\* HTTP 401 or 403, no other request follows and the error reaches the caller
\* of the fetch as an error.
C10_AuthErrorReachesCaller ==
    last_request.status \in {401, 403} =>
        /\ fpc = "raised"
        /\ ferror.class # "none"

\* the items of a list that lie in the window, in their order
RECURSIVE WindowItems(_)
WindowItems(items) ==
    IF items = <<>> THEN <<>>
    ELSE IF InWindow(items[1]) THEN <<items[1]>> \o WindowItems(Tail(items))
    ELSE WindowItems(Tail(items))

\* C24: the windowed fetch list_item_job_instances requests every page until
\* the answer carries no continuation token, whatever the timestamps of the
\* items, and returns exactly the items of all pages whose timestamp lies in
\* the window, in the order delivered.  (No item of the model is later than
\* the start of the fetch, so the window is start >= since_time.)  A fetch
\* ends without a result only on an answer that is an error.
C24_WindowedFetch ==
    fetcher = "list_item_job_instances" =>
        /\ fpc = "raised" => last_request.status # 200
        /\ fpc = "returned" =>
              /\ PageOf(last_request.token) = Len(pages)
              /\ fresult = WindowItems(Concat(pages))

\* the items of a page the fetcher is to add: all of them for
\* get_paginated, those in the window for list_item_job_instances
PageItems(fn, page) == IF fn = "get_paginated" THEN page ELSE WindowItems(page)

\* a step of a paginated fetch that got a 429 answer adds no item and keeps
\* the continuation token; a step that got a 200 answer appends the items of
\* the page asked for, once, and moves to the token of the answer
PageStep(fn) ==
    (fetcher = fn /\ fpc = "running") =>
        /\ last_request'.status = 429 =>
              /\ all_items' = all_items
              /\ continuation_token' = continuation_token
        /\ last_request'.status = 200 =>
              /\ all_items' = all_items \o PageItems(fn, pages[PageOf(continuation_token)])
              /\ continuation_token' = NextToken(continuation_token)

\* C28: for every interleaving of successful and 429 answers, get_paginated
\* and list_item_job_instances add the items of each page exactly once, in
\* page order; a 429 answer adds no items, does not change the continuation
\* token and never makes a page already accumulated be requested or appended
\* again.
C28_PagesOnce == [][PageStep("get_paginated") /\ PageStep("list_item_job_instances")]_vars

----------------------------------------------------------------------------
(* MonitoringStrategy: construction and the collect decisions.  A strategy *)
(* name is a sequence of characters, str.lower() is computed on it.        *)

SAuto == <<"a", "u", "t", "o">>
SFull == <<"f", "u", "l", "l">>
SComplement == <<"c", "o", "m", "p", "l", "e", "m", "e", "n", "t">>
SMinimal == <<"m", "i", "n", "i", "m", "a", "l">>
SFullCapital == <<"F", "u", "l", "l">>
SMinimalCapital == <<"M", "i", "n", "i", "m", "a", "l">>
SBogus == <<"b", "o", "g", "u", "s">>

\* valid_strategies of _validate_strategy
valid_strategies == {SAuto, SFull, SComplement, SMinimal}

\* os.getenv(name, default)
getenv(env, default) == IF env.present THEN env.value ELSE default

\* MonitoringStrategy._validate_strategy
validate_strategy(arg, env) ==
    LET env_value == Lower(getenv(env, arg))
    IN IF env_value \in valid_strategies THEN env_value ELSE SAuto

\* workspace_monitoring_enabled is True, is False, or anything else
MonitoringStatuses == {"enabled", "disabled", "unknown"}

\* dict.get(key, default)
Get(d, key, default) == IF key \in DOMAIN d THEN d[key] ELSE default


\* one entry of a recommendations dictionary
Recommendation(collect, reason, conflict_level) ==
    [collect |-> collect, reason |-> reason, conflict_level |-> conflict_level]

\* the sources Microsoft's workspace monitoring covers
CoveredSources == {"user_activity", "dataset_refresh", "dataset_metadata"}

\* the sources every recommendations dictionary lists besides
CoreSources == {"pipeline_execution", "dataflow_execution", "capacity_utilization"}

\* the sources only the `monitoring_enabled is True` dictionary lists
EnhancedSources == {"eventhouse_operations", "lakehouse_operations", "gateway_health"}

\* WorkspaceMonitoringDetector._get_default_recommendations
get_default_recommendations ==
    [src \in CoveredSources \cup CoreSources |->
        IF src \in CoveredSources
        THEN Recommendation(FALSE, "unknown_monitoring_status_conservative_approach",
                            "unknown")
        ELSE Recommendation(TRUE, "unique_value_always_safe", "none")]

\* WorkspaceMonitoringDetector._generate_collection_recommendations
generate_collection_recommendations(status) ==
    IF status = "enabled"
    THEN [src \in CoveredSources \cup CoreSources \cup EnhancedSources |->
            IF src = "user_activity"
            THEN Recommendation(FALSE, "covered_by_workspace_monitoring", "high")
            ELSE IF src \in CoveredSources
            THEN Recommendation(FALSE, "covered_by_semantic_model_operations", "high")
            ELSE IF src \in CoreSources
            THEN Recommendation(TRUE, "unique_value_not_covered_by_microsoft", "none")
            ELSE IF src = "eventhouse_operations"
            THEN Recommendation(TRUE, "complementary_to_workspace_monitoring", "none")
            ELSE IF src = "lakehouse_operations"
            THEN Recommendation(TRUE, "unique_operational_insights", "none")
            ELSE Recommendation(TRUE, "critical_infrastructure_not_covered", "none")]
    ELSE IF status = "disabled"
    THEN [src \in CoveredSources \cup CoreSources |->
            IF src \in CoveredSources
            THEN Recommendation(TRUE, "workspace_monitoring_disabled", "none")
            ELSE Recommendation(TRUE, "comprehensive_monitoring", "none")]
    ELSE get_default_recommendations

\* minimal_sources of should_collect_data_source
minimal_sources == {"pipeline_execution", "dataflow_execution", "capacity_utilization"}

\* a plausible slip: complement follows the recommendation's collect flag
should_collect_data_source_ByCollectFlag(mode, data_source, recommendations) ==
    LET data_recommendation == Get(recommendations, data_source, EmptyDict)
    IN IF mode = SFull
       THEN [collect |-> TRUE, reason |-> "full_strategy_override"]
       ELSE IF mode = SComplement
       THEN [collect |-> Get(data_recommendation, "collect", TRUE),
             reason |-> "complement_strategy_avoid_conflicts"]
       ELSE IF mode = SMinimal
       THEN [collect |-> data_source \in minimal_sources,
             reason |-> "minimal_strategy_core_only"]
       ELSE [collect |-> Get(data_recommendation, "collect", TRUE),
             reason |-> Get(data_recommendation, "reason", "auto_strategy_intelligent")]

\* MonitoringStrategy.should_collect_data_source
should_collect_data_source(mode, data_source, recommendations) ==
    LET data_recommendation == Get(recommendations, data_source, EmptyDict)
    IN IF mode = SFull
       THEN [collect |-> TRUE, reason |-> "full_strategy_override"]
       ELSE IF mode = SComplement
       THEN [collect |-> Get(data_recommendation, "conflict_level", "unknown") = "none",
             reason |-> "complement_strategy_avoid_conflicts"]
       ELSE IF mode = SMinimal
       THEN [collect |-> data_source \in minimal_sources,
             reason |-> "minimal_strategy_core_only"]
       ELSE [collect |-> Get(data_recommendation, "collect", TRUE),
             reason |-> Get(data_recommendation, "reason", "auto_strategy_intelligent")]

\* the data sources run_intelligent_monitoring_cycle evaluates
data_sources ==
    <<"pipeline_execution", "dataflow_execution", "user_activity", "dataset_refresh",
      "capacity_utilization", "onelake_storage", "spark_jobs", "notebooks",
      "git_integration">>

DataSourceNames == {data_sources[i] : i \in 1..Len(data_sources)}

\* the strategy arguments an engine is constructed with
StrategyArgs == {SAuto, SFull, SComplement, SMinimal, SFullCapital, SBogus}

\* the values FABRIC_MONITORING_STRATEGY takes
EnvChoices == {NoEnv, EnvValue(SMinimalCapital)}

\* the conflict_level the recommendations give a source
ConflictLevel(data_source, status) ==
    Get(Get(generate_collection_recommendations(status), data_source, EmptyDict),
        "conflict_level", "unknown")

StrategyInit ==
    /\ MapperIdle
    /\ CycleIdle
    /\ RetryIdle
    /\ BatchIdle
    /\ IngestIdle
    /\ FetchIdle
    /\ env_strategy \in EnvChoices
    /\ spc = "idle"
    /\ s_arg = <<>>
    /\ strategy = <<>>
    /\ decision = NoDecision
    /\ earlier = NoDecision

\* the environment of the process changes
SetEnv ==
    /\ \E e \in EnvChoices \ {env_strategy} : env_strategy' = e
    /\ UNCHANGED <<spc, s_arg, strategy, decision, earlier>>
    /\ UNCHANGED <<retryVars, batchVars, ingestVars, fetchVars, mapperVars, cycleVars>>

\* MonitoringStrategy(arg)
Construct ==
    /\ \E arg \in StrategyArgs :
          /\ s_arg' = arg
          /\ strategy' = validate_strategy(arg, env_strategy)
    /\ spc' = "constructed"
    /\ earlier' = IF decision # NoDecision THEN decision ELSE earlier
    /\ decision' = NoDecision
    /\ UNCHANGED env_strategy
    /\ UNCHANGED <<retryVars, batchVars, ingestVars, fetchVars, mapperVars, cycleVars>>

\* strategy.should_collect_data_source(source, monitoring_status), the status
\* as detect_workspace_monitoring_status returns it
Evaluate ==
    /\ spc = "constructed"
    /\ \E data_source \in DataSourceNames, status \in MonitoringStatuses :
          LET d == should_collect_data_source(
                       strategy, data_source, generate_collection_recommendations(status))
          IN decision' = [source |-> data_source, status |-> status, arg |-> s_arg,
                          mode |-> strategy, collect |-> d.collect, reason |-> d.reason]
    /\ UNCHANGED <<env_strategy, spc, s_arg, strategy, earlier>>
    /\ UNCHANGED <<retryVars, batchVars, ingestVars, fetchVars, mapperVars, cycleVars>>

StrategyNext == SetEnv \/ Construct \/ Evaluate

SpecStrategy == StrategyInit /\ [][StrategyNext]_vars

\* C15: in auto mode, for every data source the workflows evaluate: with
\* monitoring enabled the source is collected iff its conflict_level is none,
\* with monitoring disabled it is collected, with the status unknown it is
\* collected iff it is in the allow-list of minimal mode.
C15_AutoFollowsStatus ==
    (decision # NoDecision /\ decision.mode = SAuto) =>
        /\ decision.status = "enabled" =>
              (decision.collect <=> ConflictLevel(decision.source, "enabled") = "none")
        /\ decision.status = "disabled" => decision.collect
        /\ decision.status = "unknown" =>
              (decision.collect <=> decision.source \in minimal_sources)

\* C16: an engine exists only for a strategy argument that names one of the
\* four modes; any other argument ends the construction with an error, it is
\* not replaced by a default mode.
C16_InvalidModeRejected ==
    spc = "constructed" => Lower(s_arg) \in valid_strategies

\* C17: for an engine in mode full, complement or minimal, every source and
\* every monitoring status: full collects; complement collects iff the
\* source's conflict_level is none; minimal collects iff the source is in the
\* fixed allow-list.
C17_NonAutoTable ==
    decision # NoDecision =>
        /\ decision.mode = SFull => decision.collect
        /\ decision.mode = SComplement =>
              (decision.collect <=>
                   ConflictLevel(decision.source, decision.status) = "none")
        /\ decision.mode = SMinimal =>
              (decision.collect <=>
                   decision.source \in {"pipeline_execution", "dataflow_execution",
                                        "capacity_utilization"})

\* complement mode met a source whose conflict_level is high and skipped it
C17_Witness ==
    /\ decision # NoDecision
    /\ decision.mode = SComplement
    /\ decision.status = "enabled"
    /\ ConflictLevel(decision.source, decision.status) = "high"
    /\ ~decision.collect

\* C18: two evaluations of the same source under the same monitoring status,
\* on engines constructed with the same strategy argument, give the same
\* collect decision.
C18_Deterministic ==
    (/\ decision # NoDecision
     /\ earlier # NoDecision
     /\ decision.arg = earlier.arg
     /\ decision.status = earlier.status
     /\ decision.source = earlier.source) => decision.collect = earlier.collect

----------------------------------------------------------------------------
(* The mappers.  A raw item is a dictionary of Python values; a value is   *)
(* None, an int, a bool or a str.  The dictionary under the key "output"   *)
(* of an activity is kept beside the item's own keys.                      *)

PyNone == [type |-> "NoneType", int |-> 0, str |-> ""]
PyInt(n) == [type |-> "int", int |-> n, str |-> ""]
PyBool(b) == [type |-> "bool", int |-> (IF b THEN 1 ELSE 0), str |-> ""]
PyStr(text) == [type |-> "str", int |-> 0, str |-> text]

\* bool(v)
Truthy(v) ==
    IF v.type = "NoneType" THEN FALSE
    ELSE IF v.type = "str" THEN v.str # ""
    ELSE v.int # 0

\* `a or b`
PyOr(a, b) == IF Truthy(a) THEN a ELSE b

\* `a or b or c`, `a or b or c or d`
PyOr3(a, b, c) == PyOr(PyOr(a, b), c)
PyOr4(a, b, c, d) == PyOr(PyOr3(a, b, c), d)

\* two ISO-8601 strings, one hour apart, and a string that is no timestamp
T1 == "2024-01-01T01:00:00Z"
T2 == "2024-01-01T02:00:00Z"

\* parse_iso: None for a falsy argument and for a string fromisoformat
\* rejects (the ValueError is caught), else the datetime, here its hour
parse_iso(v) ==
    IF ~Truthy(v) THEN NoTime
    ELSE IF v = PyStr(T1) THEN 1
    ELSE IF v = PyStr(T2) THEN 2
    ELSE NoTime

\* iso_now(): the wall clock as a string
iso_now(clock) == PyStr(clock)

\* milliseconds in the unit of the parsed datetimes
MsPerHour == 3600000

\* int((end_dt - start_dt).total_seconds() * 1000) `if start_dt and end_dt`
Elapsed(start_time, end_time, otherwise) ==
    IF parse_iso(start_time) # NoTime /\ parse_iso(end_time) # NoTime
    THEN PyInt((parse_iso(end_time) - parse_iso(start_time)) * MsPerHour)
    ELSE otherwise

\* the identifiers the mappers are called with
workspace_id == PyStr("workspace-1")
pipeline_id == PyStr("pipeline-1")
pipeline_name == PyStr("Pipeline One")
pipeline_run_id == PyStr("run-1")

\* run.get(key)
ItemGet(item, key) == Get(item.top, key, PyNone)

\* output.get(key), output = activity.get("output") or {}
OutputGet(item, key) == Get(item.output, key, PyNone)

\* PipelineRunMapper.map and map_pipeline_run (the same text)
map_pipeline_run(run, clock) ==
    LET start_time == ItemGet(run, "startTimeUtc")
        end_time == ItemGet(run, "endTimeUtc")
        duration_ms == IF Truthy(start_time) /\ Truthy(end_time)
                       THEN Elapsed(start_time, end_time, PyNone)
                       ELSE PyNone
    IN [TimeGenerated |-> PyOr3(end_time, start_time, iso_now(clock)),
        WorkspaceId |-> workspace_id,
        PipelineId |-> pipeline_id,
        PipelineName |-> pipeline_name,
        RunId |-> ItemGet(run, "id"),
        Status |-> ItemGet(run, "status"),
        StartTime |-> start_time,
        EndTime |-> end_time,
        DurationMs |-> duration_ms,
        InvokeType |-> ItemGet(run, "invokeType"),
        JobType |-> ItemGet(run, "jobType"),
        RootActivityRunId |-> ItemGet(run, "rootActivityRunId")]

\* ActivityRunMapper.map and map_activity_run (the same text); the
\* activities of the model carry no "error" dictionary, and
\* ExecutionStatistics is the output dictionary, the empty one for None
map_activity_run(activity, clock) ==
    LET start_time == PyOr3(ItemGet(activity, "startTimeUtc"),
                            ItemGet(activity, "activityRunStart"),
                            ItemGet(activity, "ActivityRunStart"))
        end_time == PyOr3(ItemGet(activity, "endTimeUtc"),
                          ItemGet(activity, "activityRunEnd"),
                          ItemGet(activity, "ActivityRunEnd"))
        duration_ms == PyOr(ItemGet(activity, "durationInMs"),
                            ItemGet(activity, "DurationInMs"))
    IN [TimeGenerated |-> PyOr3(end_time, start_time, iso_now(clock)),
        WorkspaceId |-> workspace_id,
        PipelineId |-> pipeline_id,
        PipelineName |-> pipeline_id,
        ActivityName |-> PyOr(ItemGet(activity, "activityName"),
                              ItemGet(activity, "ActivityName")),
        ActivityType |-> PyOr(ItemGet(activity, "activityType"),
                              ItemGet(activity, "ActivityType")),
        RunId |-> pipeline_run_id,
        Status |-> PyOr(ItemGet(activity, "status"), ItemGet(activity, "Status")),
        StartTimeUtc |-> start_time,
        EndTimeUtc |-> end_time,
        DurationMs |-> IF Truthy(start_time) /\ Truthy(end_time) /\ ~Truthy(duration_ms)
                       THEN Elapsed(start_time, end_time, duration_ms)
                       ELSE duration_ms,
        DataRead |-> PyOr4(OutputGet(activity, "dataRead"),
                           OutputGet(activity, "rowsRead"),
                           OutputGet(activity, "recordsRead"),
                           OutputGet(activity, "bytesRead")),
        DataWritten |-> PyOr4(OutputGet(activity, "dataWritten"),
                              OutputGet(activity, "rowsWritten"),
                              OutputGet(activity, "recordsWritten"),
                              OutputGet(activity, "bytesWritten")),
        RecordsProcessed |-> PyOr3(OutputGet(activity, "recordsProcessed"),
                                   OutputGet(activity, "rowsProcessed"),
                                   OutputGet(activity, "itemsProcessed")),
        ExecutionStatistics |-> activity.output,
        ErrorCode |-> PyNone,
        ErrorMessage |-> PyNone]

\* map_dataset_metadata
map_dataset_metadata(dataset, clock) ==
    [TimeGenerated |-> iso_now(clock),
     WorkspaceId |-> workspace_id,
     DatasetId |-> ItemGet(dataset, "id"),
     DatasetName |-> ItemGet(dataset, "displayName"),
     Description |-> ItemGet(dataset, "description"),
     Type |-> ItemGet(dataset, "type"),
     CreatedDate |-> ItemGet(dataset, "createdDate"),
     ModifiedDate |-> ItemGet(dataset, "modifiedDate"),
     CreatedBy |-> ItemGet(dataset, "createdBy"),
     ModifiedBy |-> ItemGet(dataset, "modifiedBy")]

\* extract_performance_metrics, called with the output dictionary
extract_performance_metrics(activity) ==
    [rows_read |-> PyOr3(OutputGet(activity, "rowsRead"),
                         OutputGet(activity, "dataRead"),
                         OutputGet(activity, "recordsRead")),
     rows_written |-> PyOr3(OutputGet(activity, "rowsWritten"),
                            OutputGet(activity, "dataWritten"),
                            OutputGet(activity, "recordsWritten"))]

PipelineMappers == {"PipelineRunMapper.map", "map_pipeline_run"}
ActivityMappers == {"ActivityRunMapper.map", "map_activity_run"}
Mappers ==
    PipelineMappers \cup ActivityMappers
        \cup {"map_dataset_metadata", "extract_performance_metrics"}

\* the call of mapper fn
Apply(fn, item, clock) ==
    IF fn \in PipelineMappers THEN map_pipeline_run(item, clock)
    ELSE IF fn \in ActivityMappers THEN map_activity_run(item, clock)
    ELSE IF fn = "map_dataset_metadata" THEN map_dataset_metadata(item, clock)
    ELSE extract_performance_metrics(item)

\* the values an item gives a timestamp key, a number key, a text key
TimeValues == {PyNone, PyStr(""), PyStr(T1), PyStr(T2)}
NumberValues == {PyNone, PyInt(0), PyBool(FALSE), PyInt(5), PyInt(7)}
TextValues == {PyNone, PyStr(""), PyStr("Copy")}

\* dictionaries with exactly the keys of `keys` that hold a value other
\* than None (a key holding None reads like a missing key)
Dicts(keys, values) ==
    {[k \in {j \in keys : f[j] # PyNone} |-> f[k]] : f \in [keys -> values]}

Item(top, output) == [top |-> top, output |-> output]

\* the raw items: the keys of one group of fields are populated
PipelineRuns ==
    {Item(d, EmptyDict) : d \in Dicts({"startTimeUtc", "endTimeUtc"}, TimeValues)}

Activities ==
    {Item(d, EmptyDict) :
        d \in Dicts({"startTimeUtc", "activityRunStart", "endTimeUtc"}, TimeValues)
              \cup Dicts({"durationInMs", "DurationInMs"}, NumberValues)
              \cup Dicts({"activityName", "ActivityName", "Status"}, TextValues)}
    \cup {Item(EmptyDict, d) :
            d \in Dicts({"dataRead", "rowsRead", "recordsRead"}, NumberValues)
                  \cup Dicts({"dataWritten", "bytesWritten"}, NumberValues)
                  \cup Dicts({"recordsProcessed", "itemsProcessed"}, NumberValues)}

Datasets ==
    {Item(d, EmptyDict) : d \in Dicts({"id", "displayName"}, TextValues)}

Items(fn) ==
    IF fn \in PipelineMappers THEN PipelineRuns
    ELSE IF fn = "map_dataset_metadata" THEN Datasets
    ELSE Activities

\* the wall clock at the first call and later
Clock == <<"2024-01-02T09:00:00Z", "2024-01-02T09:00:01Z">>

MapperInit ==
    /\ StrategyIdle
    /\ FetchIdle
    /\ RetryIdle
    /\ BatchIdle
    /\ IngestIdle
    /\ CycleIdle
    /\ m_fn \in Mappers
    /\ m_item \in Items(m_fn)
    /\ m_clock = Clock[1]
    /\ m_out = NoRecord
    /\ m_prev = NoRecord

\* the mapper is called on the item: for the first time, or once more
Normalize ==
    /\ m_fn # "none"
    /\ m_prev = NoRecord
    /\ m_out' = Apply(m_fn, m_item, m_clock)
    /\ m_prev' = m_out
    /\ UNCHANGED <<m_fn, m_item, m_clock>>
    /\ UNCHANGED <<retryVars, batchVars, ingestVars, fetchVars, strategyVars, cycleVars>>

\* time passes
Tick ==
    /\ m_clock = Clock[1]
    /\ m_clock' = Clock[2]
    /\ UNCHANGED <<m_fn, m_item, m_out, m_prev>>
    /\ UNCHANGED <<retryVars, batchVars, ingestVars, fetchVars, strategyVars, cycleVars>>

MapperNext == Normalize \/ Tick

SpecMapper == MapperInit /\ [][MapperNext]_vars

\* C25: normalizing the same raw item twice with the same identifiers yields
\* identical Records, also for an item with no start and no end timestamp and
\* for a dataset metadata item.
C25_NormalizeTwice ==
    (m_prev # NoRecord /\ m_fn # "extract_performance_metrics") => m_out = m_prev

\* the value of the first key of `keys`, in order, that the dictionary holds
\* with a value other than None; None when there is none
RECURSIVE FirstPresent(_, _)
FirstPresent(d, keys) ==
    IF keys = <<>> THEN PyNone
    ELSE IF Get(d, keys[1], PyNone) # PyNone THEN d[keys[1]]
    ELSE FirstPresent(d, Tail(keys))

\* the field is the first candidate present, when a candidate is present
TakesFirst(value, d, keys) ==
    FirstPresent(d, keys) # PyNone => value = FirstPresent(d, keys)

\* C26: for each field of the activity-run mapper with several candidate
\* source keys (start and end time, duration, DataRead, DataWritten,
\* RecordsProcessed, ActivityName, Status; rows_read and rows_written of
\* extract_performance_metrics) the output is the value of the first
\* candidate key, in priority order, that is present with a non-null value:
\* a present 0, false or empty string is taken and no later candidate is
\* consulted.
C26_FirstCandidateWins ==
    /\ (m_fn \in ActivityMappers /\ m_out # NoRecord) =>
          /\ TakesFirst(m_out.StartTimeUtc, m_item.top,
                        <<"startTimeUtc", "activityRunStart", "ActivityRunStart">>)
          /\ TakesFirst(m_out.EndTimeUtc, m_item.top,
                        <<"endTimeUtc", "activityRunEnd", "ActivityRunEnd">>)
          /\ TakesFirst(m_out.DurationMs, m_item.top, <<"durationInMs", "DurationInMs">>)
          /\ TakesFirst(m_out.ActivityName, m_item.top, <<"activityName", "ActivityName">>)
          /\ TakesFirst(m_out.Status, m_item.top, <<"status", "Status">>)
          /\ TakesFirst(m_out.DataRead, m_item.output,
                        <<"dataRead", "rowsRead", "recordsRead", "bytesRead">>)
          /\ TakesFirst(m_out.DataWritten, m_item.output,
                        <<"dataWritten", "rowsWritten", "recordsWritten", "bytesWritten">>)
          /\ TakesFirst(m_out.RecordsProcessed, m_item.output,
                        <<"recordsProcessed", "rowsProcessed", "itemsProcessed">>)
    /\ (m_fn = "extract_performance_metrics" /\ m_out # NoRecord) =>
          /\ TakesFirst(m_out.rows_read, m_item.output,
                        <<"rowsRead", "dataRead", "recordsRead">>)
          /\ TakesFirst(m_out.rows_written, m_item.output,
                        <<"rowsWritten", "dataWritten", "recordsWritten">>)

----------------------------------------------------------------------------
(* run_intelligent_monitoring_cycle: the loop over data_sources.  The      *)
(* collectors are the _collect_* helpers; each catches every Exception of  *)
(* its workflow and returns a dictionary.                                  *)

\* the records a workflow collected when it finished without error
RecordsCollected == 2

\* None, what the capacity collector returns without a capacity_id
NoneResult == [none |-> TRUE]

\* how the collector of a source can end: the dataflow helper returns a
\* fixed dictionary, the capacity lambda returns None without a capacity_id
Outcomes(source, capacity) ==
    IF source = "dataflow_execution" THEN {"normal"}
    ELSE IF source = "capacity_utilization" /\ ~capacity THEN {"none"}
    ELSE {"normal", "error"}

\* the dictionary collector_func() returns
CollectorResult(source, outcome) ==
    IF outcome = "none" THEN NoneResult
    ELSE IF source = "dataflow_execution"
    THEN [status |-> "success", total_records |-> 0]
    ELSE IF source = "pipeline_execution"
    THEN IF outcome = "normal"
         THEN [success |-> TRUE, total_records_ingested |-> RecordsCollected]
         ELSE [success |-> FALSE, error |-> "error"]
    ELSE IF outcome = "normal"
    THEN [status |-> "completed", collected_count |-> RecordsCollected]
    ELSE [status |-> "error", error |-> "error"]

\* d[key] = value for a dictionary d
Put(d, key, value) == [k \in DOMAIN d \cup {key} |-> IF k = key THEN value ELSE d[k]]

\* a plausible slip: a source is collected whatever the decision says
ShouldInvoke_Always(d) == TRUE

\* `if decision["collect"]:`
ShouldInvoke(d) == d.collect

\* `collection_result and collection_result.get("status") == "success"`
IsSuccess(collection_result) ==
    collection_result # NoneResult /\ Get(collection_result, "status", "None") = "success"

\* strategy.should_collect_data_source(source_name, monitoring_status)
CycleDecision(source) ==
    should_collect_data_source(c_mode, source, generate_collection_recommendations(c_status))

CycleInit ==
    /\ StrategyIdle
    /\ FetchIdle
    /\ RetryIdle
    /\ BatchIdle
    /\ IngestIdle
    /\ MapperIdle
    /\ c_mode \in valid_strategies
    /\ c_status \in MonitoringStatuses
    /\ c_capacity \in BOOLEAN
    /\ c_pc = "running"
    /\ c_idx = 1
    /\ c_invoked = {}
    /\ c_outcome = EmptyDict
    /\ collections = EmptyDict
    /\ skipped_collections = EmptyDict
    /\ summary = [total_sources |-> 0, collected_sources |-> 0, skipped_sources |-> 0,
                  total_records |-> 0]

\* one pass of the for loop: the source is collected
CollectSource ==
    /\ c_pc = "running"
    /\ c_idx <= Len(data_sources)
    /\ LET source_name == data_sources[c_idx]
           d == CycleDecision(source_name)
       IN /\ ShouldInvoke(d)
          /\ \E outcome \in Outcomes(source_name, c_capacity) :
                LET collection_result == CollectorResult(source_name, outcome)
                    total_records == Get(collection_result, "total_records", 0)
                IN /\ c_invoked' = c_invoked \cup {source_name}
                   /\ c_outcome' = Put(c_outcome, source_name, outcome)
                   /\ IF IsSuccess(collection_result)
                      THEN /\ collections' =
                                Put(collections, source_name,
                                    [result |-> collection_result, decision |-> d,
                                     records_collected |-> total_records])
                           /\ summary' =
                                [summary EXCEPT
                                    !.total_sources = @ + 1,
                                    !.collected_sources = @ + 1,
                                    !.total_records = @ + total_records]
                      ELSE /\ collections' =
                                Put(collections, source_name,
                                    [result |-> collection_result, decision |-> d,
                                     error |-> TRUE])
                           /\ summary' = [summary EXCEPT !.total_sources = @ + 1]
    /\ c_idx' = c_idx + 1
    /\ UNCHANGED <<c_mode, c_status, c_capacity, c_pc, skipped_collections>>
    /\ UNCHANGED <<retryVars, batchVars, ingestVars, fetchVars, strategyVars, mapperVars>>

\* one pass of the for loop: the source is skipped
SkipSource ==
    /\ c_pc = "running"
    /\ c_idx <= Len(data_sources)
    /\ LET source_name == data_sources[c_idx]
           d == CycleDecision(source_name)
       IN /\ ~ShouldInvoke(d)
          /\ skipped_collections' = Put(skipped_collections, source_name, d)
          /\ summary' = [summary EXCEPT !.total_sources = @ + 1,
                                        !.skipped_sources = @ + 1]
    /\ c_idx' = c_idx + 1
    /\ UNCHANGED <<c_mode, c_status, c_capacity, c_pc, c_invoked, c_outcome, collections>>
    /\ UNCHANGED <<retryVars, batchVars, ingestVars, fetchVars, strategyVars, mapperVars>>

\* the loop is over: results is returned
CycleReturn ==
    /\ c_pc = "running"
    /\ c_idx > Len(data_sources)
    /\ c_pc' = "returned"
    /\ UNCHANGED <<c_mode, c_status, c_capacity, c_idx, c_invoked, c_outcome,
                   collections, skipped_collections, summary>>
    /\ UNCHANGED <<retryVars, batchVars, ingestVars, fetchVars, strategyVars, mapperVars>>

CycleNext == CollectSource \/ SkipSource \/ CycleReturn

SpecCycle == CycleInit /\ [][CycleNext]_vars

\* the sources the loop has passed
Processed == {data_sources[i] : i \in 1..(c_idx - 1)}

\* the decision of the strategy for a source: collect is TRUE in full mode, in
\* minimal mode for the three core sources, in complement mode for a
\* conflict_level of none, in auto mode by the recommendation's collect flag
Collect(source) ==
    LET rec == Get(generate_collection_recommendations(c_status), source, EmptyDict)
    IN IF c_mode = SFull THEN TRUE
       ELSE IF c_mode = SMinimal THEN source \in minimal_sources
       ELSE IF c_mode = SComplement THEN Get(rec, "conflict_level", "unknown") = "none"
       ELSE Get(rec, "collect", TRUE)

\* C27: in a monitoring cycle the collector of a source is invoked if and only
\* if the decision for the source has collect = true; for collect = false no
\* collection is made and the source is recorded in skipped_collections with
\* its decision.
C27_CollectIffDecision ==
    \A source \in Processed :
        /\ source \in c_invoked <=> Collect(source)
        /\ ~Collect(source) =>
              /\ source \in DOMAIN skipped_collections
              /\ skipped_collections[source] = CycleDecision(source)
              /\ skipped_collections[source].collect = FALSE
              /\ source \notin DOMAIN collections

\* a cycle returned that collected some sources and skipped others
C27_Witness ==
    /\ c_pc = "returned"
    /\ c_invoked # {}
    /\ DOMAIN skipped_collections # {}

\* the record count of the result of a workflow
RecordCount(collection_result) ==
    Get(collection_result, "collected_count",
        Get(collection_result, "total_records_ingested",
            Get(collection_result, "total_records", 0)))

\* the records of the sources passed whose workflow finished without error
RECURSIVE RecordsOf(_)
RecordsOf(i) ==
    IF i = 0 THEN 0
    ELSE RecordsOf(i - 1)
         + (IF data_sources[i] \in c_invoked /\ c_outcome[data_sources[i]] = "normal"
            THEN RecordCount(CollectorResult(data_sources[i], "normal"))
            ELSE 0)

\* C30: in run_intelligent_monitoring_cycle a source with collect = true whose
\* workflow finishes without error, returning its normal result, is counted in
\* summary.collected_sources and its record count is added to total_records,
\* so collected_sources + skipped_sources = total_sources whenever no
\* collection failed.
C30_CollectedCounted ==
    /\ \A source \in c_invoked :
          c_outcome[source] = "normal" =>
              /\ "error" \notin DOMAIN collections[source]
              /\ collections[source].records_collected
                    = RecordCount(CollectorResult(source, "normal"))
    /\ (\A source \in c_invoked : c_outcome[source] = "normal") =>
          /\ summary.collected_sources = Cardinality(c_invoked)
          /\ summary.collected_sources + summary.skipped_sources = summary.total_sources
          /\ summary.total_records = RecordsOf(c_idx - 1)

====
